---- MODULE Spec2Model ----
(***************************************************************************)
(* A model of pregex, a probabilistic regular-expression engine.           *)
(*                                                                         *)
(*   source --parse--> [AstNode] --asts_to_nfa--> [State]                  *)
(*          --match_likelihood(nfa, input)--> Option<f64>                  *)
(*                                                                         *)
(* ast.rs           AstNode / Kind, build_ast_from_expr (node lengths)     *)
(* distribution.rs  Dist, DistLink, Dist::evaluate, DistLink::pmf_link     *)
(* nfa.rs           State, asts_to_nfa, ast_to_frag, quantifier_to_frag    *)
(* regex_state.rs   initial_state, evaluate_state, terminal_state_p,       *)
(*                  Tokens                                                 *)
(* regex.rs         step_states, add_counts, match_likelihood              *)
(*                                                                         *)
(* regex.rs also keeps an older private copy of initial_state and          *)
(* evaluate_state; the model takes the public ones of regex_state.rs,      *)
(* the ones with the states argument that the quantifier arm reads.        *)
(*                                                                         *)
(* f64 values are modelled exactly, as fractions <<n, d>> in lowest terms  *)
(* with d >= 0; d = 0 gives the IEEE specials: <<1,0>> is +inf, <<-1,0>>   *)
(* is -inf and <<0,0>> is NaN.  Option<usize> / Option<u64> are modelled   *)
(* as naturals with None == -1.  NFA indices are 0-based as in the code;   *)
(* the state with index i is nfa[i + 1].                                   *)
(***************************************************************************)
EXTENDS Integers, Sequences, FiniteSets, TLC

(***************************************************************************)
(* Bounds of the model.                                                    *)
(***************************************************************************)
\* longest input string
MaxInputLen == 3
\* largest n of a{n} in the enumerated patterns
MaxExact == 2

None == 0 - 1

(***************************************************************************)
(* f64 arithmetic on exact fractions.                                      *)
(***************************************************************************)
Abs(x) == IF x < 0 THEN 0 - x ELSE x

Sign(x) == IF x < 0 THEN 0 - 1 ELSE IF x > 0 THEN 1 ELSE 0

RECURSIVE Gcd(_, _)
Gcd(a, b) == IF b = 0 THEN a ELSE Gcd(b, a % b)

\* the f64 value n/d (d may be negative or zero on entry)
Frac(n, d) ==
    IF d = 0 THEN <<Sign(n), 0>>
    ELSE LET g == Gcd(Abs(n), Abs(d))
             s == Sign(d)
         IN  <<(s * n) \div g, (s * d) \div g>>

F0 == <<0, 1>>
F1 == <<1, 1>>
FHalf == <<1, 2>>
FNaN == <<0, 0>>

IsNaN(a) == a = FNaN

FMul(a, b) == Frac(a[1] * b[1], a[2] * b[2])

FSub(a, b) ==
    IF a[2] = 0 /\ b[2] = 0
    THEN Frac(a[1] - b[1], 0)
    ELSE Frac(a[1] * b[2] - b[1] * a[2], a[2] * b[2])

FAdd(a, b) ==
    IF a[2] = 0 /\ b[2] = 0
    THEN (IF a[1] = b[1] THEN a ELSE FNaN)
    ELSE Frac(a[1] * b[2] + b[1] * a[2], a[2] * b[2])

FDiv(a, b) == Frac(a[1] * b[2], a[2] * b[1])

\* a < b; false when either is NaN
FLt(a, b) ==
    /\ ~IsNaN(a)
    /\ ~IsNaN(b)
    /\ IF a[2] = 0 /\ b[2] = 0 THEN a[1] < b[1]
       ELSE a[1] * b[2] < b[1] * a[2]

FLe(a, b) == ~IsNaN(a) /\ ~IsNaN(b) /\ ~FLt(b, a)

\* f64::max: a NaN operand is ignored
FMax(a, b) ==
    IF IsNaN(a) THEN b
    ELSE IF IsNaN(b) THEN a
    ELSE IF FLt(a, b) THEN b ELSE a

RECURSIVE FPow(_, _)
FPow(a, k) == IF k = 0 THEN F1 ELSE FMul(a, FPow(a, k - 1))

RECURSIVE Choose(_, _)
Choose(n, k) ==
    IF k = 0 THEN 1
    ELSE IF k > n THEN 0
    ELSE (Choose(n - 1, k - 1) * n) \div k

RECURSIVE FSum(_)
FSum(s) == IF s = <<>> THEN F0 ELSE FAdd(Head(s), FSum(Tail(s)))

(***************************************************************************)
(* distribution.rs: Dist and DistLink.                                     *)
(* A Dist is a record [name, n_min, n_max, p, pm]; p is the f64 parameter  *)
(* (for PZipf the exponent s, a whole number in this model) and pm the     *)
(* probability vector of a Categorical.  A DistLink adds the field link:   *)
(* "Counted" or "Indexed"; Option<DistLink>::None is NoDist.               *)
(***************************************************************************)
\* stands for u64::MAX (n_max of PGeometric, which evaluate never reads)
U64_MAX == 2147483647

MkDist(name, n_min, n_max, p, pm) ==
    [name |-> name, n_min |-> n_min, n_max |-> n_max, p |-> p, pm |-> pm]

Categorical(pm) == MkDist("Categorical", 0, 0, F0, pm)
Constant(n_min, n_max, p) == MkDist("Constant", n_min, n_max, p, <<>>)
\* ExactlyTimes that lets the exit open one visit late
ExactlyTimes_OneLate(n_match) == MkDist("ExactlyTimes", n_match + 1, n_match + 1, F0, <<>>)
ExactlyTimes(n_match) == MkDist("ExactlyTimes", n_match, n_match, F0, <<>>)
PGeometric(n_min, n_max, p) == MkDist("PGeometric", n_min, n_max, p, <<>>)
PBinomial(n_min, n_max, p) == MkDist("PBinomial", n_min, n_max, p, <<>>)
PBernoulli(n_min, n_max, p) == MkDist("PBernoulli", n_min, n_max, p, <<>>)
PZipf(n_min, n_max, s) == MkDist("PZipf", n_min, n_max, s, <<>>)

NoDist == [link |-> "None", dist |-> MkDist("None", 0, 0, F0, <<>>)]
Counted(d) == [link |-> "Counted", dist |-> d]
Indexed(d) == [link |-> "Indexed", dist |-> d]

\* Dist::default_from: the distribution of a quantifier without a clause
default_from(quantifier_kind, n) ==
    IF quantifier_kind = "ExactQuantifier" THEN Counted(ExactlyTimes(n)) ELSE NoDist

\* Dist::complete_from for the clauses ~Const(p), ~Geo(p), ~Ber(p), ~Bin(p)
\* and ~Zipf(s): n is the n of an ExactQuantifier (0 otherwise), nchars the
\* length of the class's character list (None when the host is no class)
complete_from(n, nchars, name, p) ==
    CASE name = "const" -> Constant(n, n, p)
      [] name = "geo" -> PGeometric(n, U64_MAX, p)
      [] name = "ber" -> PBernoulli(0, 2, p)
      [] name = "bin" ->
            PBinomial(0, IF nchars = None THEN n
                         ELSE IF nchars = 0 THEN 0 ELSE nchars - 1, p)
      [] name = "zipf" -> PZipf(0, IF nchars = None THEN n ELSE nchars, p)

\* the sum of the named parameters with keys in S
RECURSIVE SumMass(_, _)
SumMass(params_named, S) ==
    IF S = {} THEN F0
    ELSE LET k == CHOOSE k \in S : TRUE
         IN  FAdd(params_named[k], SumMass(params_named, S \ {k}))

\* the "cat" arm without implicit masses: a member without a named mass
\* gets 0
cat_prob_mass_NoImplicit(is_negate, c, params_named) ==
    [remainder |-> IF "." \in DOMAIN params_named THEN params_named["."]
                   ELSE FMax(F0, FSub(F1, SumMass(params_named,
                                                  DOMAIN params_named \ {"."}))),
     chars |-> [i \in 1..Len(c) |->
                   IF c[i] \in DOMAIN params_named THEN params_named[c[i]] ELSE F0]]

\* usize::MAX of a 64-bit target, on the scale of U64_MAX
USIZE_MAX == U64_MAX

\* the outcomes of the usize subtraction a - b: the difference when b <= a;
\* otherwise the panic "attempt to subtract with overflow" of a build with
\* overflow checks, or the difference modulo USIZE_MAX + 1 of a build
\* without them
usize_sub(a, b) ==
    IF b <= a THEN {[panic |-> FALSE, v |-> a - b]}
    ELSE {[panic |-> TRUE, v |-> 0],
          [panic |-> FALSE, v |-> (USIZE_MAX - (b - a)) + 1]}

\* n_explicit of the "cat" arm: the number of names other than "."
n_explicit(params_named) ==
    Cardinality({k \in DOMAIN params_named : k # "."})

\* n_implicit of the "cat" arm for a class with the members c:
\* usize::max(1, chars.len() - n_explicit), the subtraction first
n_implicit(c, params_named) ==
    {IF o.panic THEN o ELSE [o EXCEPT !.v = IF o.v > 1 THEN o.v ELSE 1] :
        o \in usize_sub(Len(c), n_explicit(params_named))}

\* the "cat" arm of Dist::complete_from up to the insertion of the
\* remainder: the remainder mass and the masses of the class members c, in
\* the order of c.  params_named maps the names of the clause (class
\* members, "." for the remainder) to their values.  It is applied
\* where the names other than "." are at most Len(c), where n_implicit
\* has one outcome.
cat_prob_mass(is_negate, c, params_named) ==
    LET keys == DOMAIN params_named
        n_imp == (CHOOSE o \in n_implicit(c, params_named) : ~o.panic).v
    IN  IF is_negate
        THEN LET explicit_mass == SumMass(params_named, {k \in keys : k # "."})
                 remainder_mass == IF "." \in keys THEN params_named["."]
                                   ELSE FMax(F0, FSub(F1, explicit_mass))
                 implicit_mass ==
                     FMax(F0, FSub(FSub(F1, explicit_mass), remainder_mass))
                 p_implicit == FDiv(FMax(F0, implicit_mass), Frac(n_imp, 1))
             IN  [remainder |-> remainder_mass,
                  chars |-> [i \in 1..Len(c) |->
                                IF c[i] \in keys THEN params_named[c[i]]
                                ELSE p_implicit]]
        ELSE LET explicit_mass == SumMass(params_named, keys)
                 implicit_mass == FMax(F0, FSub(F1, explicit_mass))
                 p_implicit == FDiv(FMax(F0, implicit_mass), Frac(n_imp, 1))
                 prob_mass == [i \in 1..Len(c) |->
                                  IF c[i] \in keys THEN params_named[c[i]]
                                  ELSE p_implicit]
                 p_remainder == IF "." \in keys THEN params_named["."]
                                ELSE FMax(F0, FSub(F1, FSum(prob_mass)))
             IN  [remainder |-> p_remainder, chars |-> prob_mass]

\* the "cat" arm with the remainder pushed at the end of the vector
complete_from_cat_RemainderLast(is_negate, c, params_named) ==
    LET m == cat_prob_mass(is_negate, c, params_named)
    IN  Categorical(Append(m.chars, m.remainder))

\* Dist::complete_from for the clause ~Cat(a=.., b=.., .=..) of a class:
\* prob_mass.insert(0, remainder)
complete_from_cat(is_negate, c, params_named) ==
    LET m == cat_prob_mass(is_negate, c, params_named)
    IN  Categorical(<<m.remainder>> \o m.chars)

\* outcome of Dist::evaluate: the pair (p0, p1), or a panic of an unwrap()
Pair(p0, p1) == [panic |-> FALSE, p0 |-> p0, p1 |-> p1]
Panic == [panic |-> TRUE, p0 |-> FNaN, p1 |-> FNaN]

\* statrs Geometric::new(p) is Err unless 0 < p <= 1
GeometricNewOk(p) == FLt(F0, p) /\ FLe(p, F1)
\* statrs Geometric::pmf
GeometricPmf(p, x) ==
    IF x = 0 THEN F0 ELSE FMul(FPow(FSub(F1, p), x - 1), p)

\* statrs Binomial::new(p, n) is Err unless 0 <= p <= 1
BinomialNewOk(p) == FLe(F0, p) /\ FLe(p, F1)
\* statrs Binomial::pmf
BinomialPmf(p, n, x) ==
    IF x > n THEN F0
    ELSE IF p = F0 THEN (IF x = 0 THEN F1 ELSE F0)
    ELSE IF p = F1 THEN (IF x = n THEN F1 ELSE F0)
    ELSE FMul(Frac(Choose(n, x), 1),
              FMul(FPow(p, x), FPow(FSub(F1, p), n - x)))

\* statrs Categorical::new(prob_mass) is Err when an entry is negative or
\* NaN or the total mass is zero
CategoricalNewOk(pm) ==
    /\ \A i \in 1..Len(pm) : FLe(F0, pm[i])
    /\ FSum(pm) # F0
\* statrs Categorical::pmf: the normalised mass, 0 outside the vector
CategoricalPmf(pm, x) ==
    IF x + 1 \in 1..Len(pm) THEN FDiv(pm[x + 1], FSum(pm)) ELSE F0

RECURSIVE generalized_harmonic_number(_, _)
generalized_harmonic_number(n, m) ==
    IF n = 0 THEN F0
    ELSE FAdd(generalized_harmonic_number(n - 1, m),
              FDiv(F1, FPow(Frac(n, 1), m)))

zipf(x, a, n) ==
    IF x = 0 THEN F0
    ELSE FDiv(FDiv(F1, FPow(Frac(x, 1), a)), generalized_harmonic_number(n, a))

\* Dist::evaluate(x, log = false)
evaluate(d, x) ==
    CASE d.name = "Constant" ->
            IF x >= d.n_min /\ x <= d.n_max THEN Pair(d.p, d.p) ELSE Pair(F0, F0)
      [] d.name = "ExactlyTimes" ->
            IF x = d.n_min THEN Pair(F0, F1)
            ELSE IF x < d.n_min THEN Pair(F1, F0)
            ELSE Pair(F0, F0)
      [] d.name = "PGeometric" ->
            IF x < d.n_min THEN Pair(F1, F0)
            ELSE IF ~GeometricNewOk(d.p) THEN Panic
            ELSE LET p == GeometricPmf(d.p, x - d.n_min + 1)
                 IN  Pair(FSub(F1, p), p)
      [] d.name = "PBinomial" ->
            IF x > d.n_max THEN Pair(F0, F0)
            ELSE IF ~BinomialNewOk(d.p) THEN Panic
            ELSE LET p == BinomialPmf(d.p, d.n_max, x)
                 IN  Pair(FSub(F1, p), p)
      [] d.name = "PBernoulli" ->
            IF x > d.n_max THEN Pair(F1, F0)
            ELSE IF ~BinomialNewOk(d.p) THEN Panic
            ELSE LET p == BinomialPmf(d.p, 1, x)
                 IN  Pair(FSub(F1, p), p)
      [] d.name = "PZipf" ->
            LET p == zipf(x, d.p[1], d.n_max)
            IN  Pair(FSub(F1, p), p)
      [] d.name = "Categorical" ->
            IF ~CategoricalNewOk(d.pm) THEN Panic
            ELSE LET p == CategoricalPmf(d.pm, x)
                 IN  Pair(FSub(F1, p), p)

\* a Counted distribution consulted at the visit count after the step's
\* increment
pmf_link_CountedNext(l, token, x, is_inverse) ==
    IF l.link = "Counted" THEN evaluate(l.dist, IF x = None THEN 1 ELSE x + 1)
    ELSE IF token.kind # "Literal" THEN Pair(F0, F0)
    ELSE IF x # None
    THEN CASE l.dist.name = "PZipf" -> evaluate(l.dist, x + 1)
           [] l.dist.name = "Categorical" -> evaluate(l.dist, x + 1)
           [] l.dist.name = "Constant" -> evaluate(l.dist, 0)
           [] OTHER -> evaluate(l.dist, x)
    ELSE CASE l.dist.name = "Categorical" ->
                \* prob_mass.get(0).unwrap()
                IF Len(l.dist.pm) = 0 THEN Panic
                ELSE Pair(FSub(F1, l.dist.pm[1]), l.dist.pm[1])
           [] l.dist.name = "Constant" ->
                IF is_inverse THEN Pair(l.dist.p, F1)
                ELSE Pair(l.dist.p, FSub(F1, l.dist.p))
           [] OTHER -> Pair(F0, F0)

\* DistLink::pmf_link(token, x, kind, is_inverse, log = false); x = None
\* when the token is not in the class
pmf_link(l, token, x, is_inverse) ==
    IF l.link = "Counted" THEN evaluate(l.dist, IF x = None THEN 0 ELSE x)
    ELSE IF token.kind # "Literal" THEN Pair(F0, F0)
    ELSE IF x # None
    THEN CASE l.dist.name = "PZipf" -> evaluate(l.dist, x + 1)
           [] l.dist.name = "Categorical" -> evaluate(l.dist, x + 1)
           [] l.dist.name = "Constant" -> evaluate(l.dist, 0)
           [] OTHER -> evaluate(l.dist, x)
    ELSE CASE l.dist.name = "Categorical" ->
                \* prob_mass.get(0).unwrap()
                IF Len(l.dist.pm) = 0 THEN Panic
                ELSE Pair(FSub(F1, l.dist.pm[1]), l.dist.pm[1])
           [] l.dist.name = "Constant" ->
                IF is_inverse THEN Pair(l.dist.p, F1)
                ELSE Pair(l.dist.p, FSub(F1, l.dist.p))
           [] OTHER -> Pair(F0, F0)

(***************************************************************************)
(* ast.rs: AstNode { length, kind } and build_ast_from_expr, one operator  *)
(* per grammar rule it folds.  A node is a record [kind, length, ...] with *)
(* the fields of its Kind variant.                                         *)
(***************************************************************************)
\* Rule::Alternation with a right-hand side
\* an alternation node that does not count its Split state
Alternation_NoSplit(left_ast, right_ast) ==
    [kind |-> "Alternation", length |-> left_ast.length + right_ast.length,
     left |-> left_ast, right |-> right_ast]

Alternation(left_ast, right_ast) ==
    [kind |-> "Alternation", length |-> left_ast.length + right_ast.length + 1,
     left |-> left_ast, right |-> right_ast]

AnchorEnd == [kind |-> "AnchorEnd", length |-> 1]

\* ^ built as the unanchored start
AnchorStart_AsStart == [kind |-> "Start", length |-> 0]

AnchorStart == [kind |-> "AnchorStart", length |-> 0]

\* Rule::Concat | Rule::Concats
Concatenation(left_ast, right_ast) ==
    [kind |-> "Concatenation", length |-> left_ast.length + right_ast.length,
     left |-> left_ast, right |-> right_ast]

\* Rule::ShortQuantifier
Quantifier(c) == [kind |-> "Quantifier", length |-> 1, c |-> c]

\* Rule::ExactQuantifier
ExactQuantifier(n) == [kind |-> "ExactQuantifier", length |-> 1, n |-> n]

QuantifierN(quantifier_ast) ==
    IF quantifier_ast.kind = "ExactQuantifier" THEN quantifier_ast.n ELSE 0

\* a distribution clause ~Name(p) of the source, or its absence
NoClause == [name |-> "", p |-> F0]
Clause(name, p) == [name |-> name, p |-> p]
\* the clause ~Cat(..) with its named parameters
CatClause(named) == [name |-> "cat", p |-> F0, named |-> named]

\* a quantified node that does not count its quantifier state
Quantified_OperandLength(left_ast, quantifier_ast, clause) ==
    [kind |-> "Quantified", length |-> left_ast.length,
     quantifier |-> quantifier_ast, operand |-> left_ast,
     dist |-> IF clause = NoClause
              THEN default_from(quantifier_ast.kind, QuantifierN(quantifier_ast))
              ELSE Counted(complete_from(QuantifierN(quantifier_ast), None,
                                         clause.name, clause.p))]

\* Rule::Quantified
Quantified(left_ast, quantifier_ast, clause) ==
    [kind |-> "Quantified", length |-> left_ast.length + quantifier_ast.length,
     quantifier |-> quantifier_ast, operand |-> left_ast,
     dist |-> IF clause = NoClause
              THEN default_from(quantifier_ast.kind, QuantifierN(quantifier_ast))
              ELSE Counted(complete_from(QuantifierN(quantifier_ast), None,
                                         clause.name, clause.p))]

\* Rule::Literal | Rule::EscapedLiteral
Literal(c) == [kind |-> "Literal", length |-> 1, c |-> c]

Dot == [kind |-> "Dot", length |-> 1]

\* Rule::CharacterClass | Rule::ShortClass | Rule::PosixClass; chars is
\* build_chars(pair)
Class(chars) == [kind |-> "Class", length |-> 1, neg |-> TRUE, chars |-> chars]

\* a CharacterClass pair of the parse tree: negated when the class is
\* written with a leading ^, chars its members in source order
CharacterClass(negated, chars) ==
    [rule |-> "CharacterClass", negated |-> negated, chars |-> chars]

\* build_chars(pair) for a CharacterClass: the characters of the inner pairs
build_chars(pair) == pair.chars

\* build_ast_from_expr for Rule::CharacterClass | ShortClass | PosixClass
build_ast_from_class(pair) == Class(build_chars(pair))

\* Rule::LongClass
LongClass(left_ast, clause) ==
    IF clause = NoClause THEN left_ast
    ELSE [kind |-> "Classified", length |-> 1, inner |-> left_ast,
          dist |-> Indexed(IF clause.name = "cat"
                           THEN complete_from_cat(left_ast.neg, left_ast.chars,
                                                  clause.named)
                           ELSE complete_from(0, Len(left_ast.chars),
                                              clause.name, clause.p))]

\* Rule::EOI
Terminal == [kind |-> "Terminal", length |-> 0]

(***************************************************************************)
(* nfa.rs: State { kind, outs, dist } and the compilation of the ASTs.     *)
(* A State is a record [kind, c, n, neg, chars, outs, dist]: kind with the *)
(* payload of its variant (c of Literal and Quantifier, n of               *)
(* ExactQuantifier, neg and chars of Class), outs a pair of Option<usize>.  *)
(***************************************************************************)
\* State::new(kind, outs, dist), the kind taken from the AST node
State_new(node, outs, dist) ==
    [kind |-> node.kind,
     c |-> IF node.kind \in {"Literal", "Quantifier"} THEN node.c ELSE "",
     n |-> IF node.kind = "ExactQuantifier" THEN node.n ELSE 0,
     neg |-> IF node.kind = "Class" THEN node.neg ELSE FALSE,
     chars |-> IF node.kind = "Class" THEN node.chars ELSE <<>>,
     outs |-> outs,
     dist |-> dist]

\* State::from(node, outs)
State_from(node, outs) == State_new(node, outs, NoDist)

\* a start state that behaves as the anchor ^
State_start_Anchored(start) ==
    State_new([kind |-> "AnchorStart"], <<start, None>>, NoDist)

\* State::start(start)
State_start(start) == State_new([kind |-> "Start"], <<start, None>>, NoDist)

\* State::terminal()
State_terminal == State_new([kind |-> "Terminal"], <<None, None>>, NoDist)

Frag(states, start, outs) == [states |-> states, start |-> start, outs |-> outs]

RECURSIVE ast_to_frag(_, _, _, _)
RECURSIVE quantifier_to_frag(_, _, _, _, _)

\* ast_to_frag whose Split points at the first index of each side instead
\* of its start
ast_to_frag_SplitToBase(ast, index, outs, distribution) ==
    CASE ast.kind = "Alternation" ->
            LET right == ast_to_frag(ast.right, index + ast.left.length + 1, outs, NoDist)
                left == ast_to_frag(ast.left, index + 1, outs, NoDist)
                split == ast_to_frag([kind |-> "Split", length |-> 1], index,
                                     <<index + 1, index + ast.left.length + 1>>, NoDist)
            IN  Frag(split.states \o left.states \o right.states, split.start, outs)
      [] ast.kind = "AnchorEnd" -> Frag(<<State_new(ast, outs, NoDist)>>, index, outs)
      [] ast.kind = "AnchorStart" -> Frag(<<State_new(ast, outs, NoDist)>>, index, outs)
      [] ast.kind = "Concatenation" ->
            LET right == ast_to_frag(ast.right, index + ast.left.length, outs, NoDist)
                left == ast_to_frag(ast.left, index, <<right.start, None>>, NoDist)
            IN  Frag(left.states \o right.states, left.start, right.outs)
      [] ast.kind \in {"Literal", "Dot"} -> Frag(<<State_from(ast, outs)>>, index, outs)
      [] ast.kind = "Classified" ->
            Frag(<<State_new(ast.inner, outs, ast.dist)>>, index, outs)
      [] ast.kind = "Class" -> Frag(<<State_new(ast, outs, distribution)>>, index, outs)
      [] ast.kind = "Quantified" ->
            quantifier_to_frag(ast.quantifier, ast.operand, index, outs, ast.dist)
      [] ast.kind \in {"Quantifier", "ExactQuantifier"} ->
            Frag(<<State_new(ast, outs, distribution)>>, index, outs)
      [] ast.kind = "Start" -> Frag(<<State_new(ast, outs, NoDist)>>, index, outs)
      [] ast.kind = "Terminal" -> Frag(<<State_terminal>>, index, <<None, None>>)
      [] ast.kind = "Split" -> Frag(<<State_from(ast, outs)>>, index, outs)

\* ast_to_frag whose concatenation wires the left side to the first index
\* of the right side instead of its start
ast_to_frag_LeftToBase(ast, index, outs, distribution) ==
    CASE ast.kind = "Alternation" ->
            LET right == ast_to_frag(ast.right, index + ast.left.length + 1, outs, NoDist)
                left == ast_to_frag(ast.left, index + 1, outs, NoDist)
                split == ast_to_frag([kind |-> "Split", length |-> 1], index,
                                     <<left.start, right.start>>, NoDist)
            IN  Frag(split.states \o left.states \o right.states, split.start, outs)
      [] ast.kind = "AnchorEnd" -> Frag(<<State_new(ast, outs, NoDist)>>, index, outs)
      [] ast.kind = "AnchorStart" -> Frag(<<State_new(ast, outs, NoDist)>>, index, outs)
      [] ast.kind = "Concatenation" ->
            LET right == ast_to_frag(ast.right, index + ast.left.length, outs, NoDist)
                left == ast_to_frag(ast.left, index,
                                    <<index + ast.left.length, None>>, NoDist)
            IN  Frag(left.states \o right.states, left.start, right.outs)
      [] ast.kind \in {"Literal", "Dot"} -> Frag(<<State_from(ast, outs)>>, index, outs)
      [] ast.kind = "Classified" ->
            Frag(<<State_new(ast.inner, outs, ast.dist)>>, index, outs)
      [] ast.kind = "Class" -> Frag(<<State_new(ast, outs, distribution)>>, index, outs)
      [] ast.kind = "Quantified" ->
            quantifier_to_frag(ast.quantifier, ast.operand, index, outs, ast.dist)
      [] ast.kind \in {"Quantifier", "ExactQuantifier"} ->
            Frag(<<State_new(ast, outs, distribution)>>, index, outs)
      [] ast.kind = "Start" -> Frag(<<State_new(ast, outs, NoDist)>>, index, outs)
      [] ast.kind = "Terminal" -> Frag(<<State_terminal>>, index, <<None, None>>)
      [] ast.kind = "Split" -> Frag(<<State_from(ast, outs)>>, index, outs)

ast_to_frag(ast, index, outs, distribution) ==
    CASE ast.kind = "Alternation" ->
            LET right == ast_to_frag(ast.right, index + ast.left.length + 1, outs, NoDist)
                left == ast_to_frag(ast.left, index + 1, outs, NoDist)
                split == ast_to_frag([kind |-> "Split", length |-> 1], index,
                                     <<left.start, right.start>>, NoDist)
            IN  Frag(split.states \o left.states \o right.states, split.start, outs)
      [] ast.kind = "AnchorEnd" -> Frag(<<State_new(ast, outs, NoDist)>>, index, outs)
      [] ast.kind = "AnchorStart" -> Frag(<<State_new(ast, outs, NoDist)>>, index, outs)
      [] ast.kind = "Concatenation" ->
            LET right == ast_to_frag(ast.right, index + ast.left.length, outs, NoDist)
                left == ast_to_frag(ast.left, index, <<right.start, None>>, NoDist)
            IN  Frag(left.states \o right.states, left.start, right.outs)
      [] ast.kind \in {"Literal", "Dot"} -> Frag(<<State_from(ast, outs)>>, index, outs)
      [] ast.kind = "Classified" ->
            Frag(<<State_new(ast.inner, outs, ast.dist)>>, index, outs)
      [] ast.kind = "Class" -> Frag(<<State_new(ast, outs, distribution)>>, index, outs)
      [] ast.kind = "Quantified" ->
            quantifier_to_frag(ast.quantifier, ast.operand, index, outs, ast.dist)
      [] ast.kind \in {"Quantifier", "ExactQuantifier"} ->
            Frag(<<State_new(ast, outs, distribution)>>, index, outs)
      [] ast.kind = "Start" -> Frag(<<State_new(ast, outs, NoDist)>>, index, outs)
      [] ast.kind = "Terminal" -> Frag(<<State_terminal>>, index, <<None, None>>)
      [] ast.kind = "Split" -> Frag(<<State_from(ast, outs)>>, index, outs)

\* quantifier_to_frag whose * , + and {n} quantifier points back to the start
\* of the operand fragment instead of its first index
quantifier_to_frag_BodyToStart(quantifier, quantified, index, outs, distribution) ==
    IF quantifier.kind = "Quantifier" /\ quantifier.c = "?"
    THEN LET quantifier_start == index + quantified.length
             left == ast_to_frag(quantified, index, outs, NoDist)
             q == ast_to_frag(quantifier, quantifier_start,
                              <<left.start, outs[1]>>, distribution)
         IN  Frag(left.states \o q.states, q.start, outs)
    ELSE LET quantifier_start == index + quantified.length
             left == ast_to_frag(quantified, index, <<quantifier_start, None>>, NoDist)
             q == ast_to_frag(quantifier, quantifier_start,
                              <<left.start, outs[1]>>, distribution)
             start == IF quantifier.kind = "Quantifier" /\ quantifier.c = "*"
                      THEN q.start ELSE left.start
         IN  Frag(left.states \o q.states, start, outs)

\* quantifier_to_frag whose ? operand leads back to the quantifier, as the
\* operand of * does
quantifier_to_frag_OptionalLoops(quantifier, quantified, index, outs, distribution) ==
    IF quantifier.kind = "Quantifier"
    THEN LET quantifier_start == index + quantified.length
             left == ast_to_frag(quantified, index, <<quantifier_start, None>>, NoDist)
             q == ast_to_frag(quantifier, quantifier_start,
                              <<index, outs[1]>>, distribution)
             start == IF quantifier.c = "+" THEN left.start ELSE q.start
         IN  Frag(left.states \o q.states, start, outs)
    ELSE LET quantifier_start == index + quantified.length
             left == ast_to_frag(quantified, index, <<quantifier_start, None>>, NoDist)
             q == ast_to_frag(quantifier, quantifier_start,
                              <<index, outs[1]>>, distribution)
         IN  Frag(left.states \o q.states, left.start, outs)

quantifier_to_frag(quantifier, quantified, index, outs, distribution) ==
    IF quantifier.kind = "Quantifier" /\ quantifier.c = "?"
    THEN LET quantifier_start == index + quantified.length
             left == ast_to_frag(quantified, index, outs, NoDist)
             q == ast_to_frag(quantifier, quantifier_start,
                              <<left.start, outs[1]>>, distribution)
         IN  Frag(left.states \o q.states, q.start, outs)
    ELSE IF quantifier.kind = "Quantifier"
    THEN LET quantifier_start == index + quantified.length
             left == ast_to_frag(quantified, index, <<quantifier_start, None>>, NoDist)
             q == ast_to_frag(quantifier, quantifier_start,
                              <<index, outs[1]>>, distribution)
             start == IF quantifier.c = "+" THEN left.start ELSE q.start
         IN  Frag(left.states \o q.states, start, outs)
    ELSE \* Kind::ExactQuantifier
         LET quantifier_start == index + quantified.length
             left == ast_to_frag(quantified, index, <<quantifier_start, None>>, NoDist)
             q == ast_to_frag(quantifier, quantifier_start,
                              <<index, outs[1]>>, distribution)
         IN  Frag(left.states \o q.states, left.start, outs)

\* asts_to_nfa's loop with the end of every fragment one index too far
RECURSIVE asts_to_nfa_loop_EndOffByOne(_, _, _, _)
asts_to_nfa_loop_EndOffByOne(asts, k, index, start) ==
    IF k > Len(asts) THEN <<<<>>, start>>
    ELSE LET end == index + asts[k].length + 1
             nfa_frag == ast_to_frag(asts[k], index, <<end, None>>, NoDist)
             rest == asts_to_nfa_loop_EndOffByOne(asts, k + 1, end,
                         IF start = None THEN nfa_frag.start ELSE start)
         IN  <<nfa_frag.states \o rest[1], rest[2]>>

\* the loop of asts_to_nfa over asts[k..]: <<states, start>>
RECURSIVE asts_to_nfa_loop(_, _, _, _)
asts_to_nfa_loop(asts, k, index, start) ==
    IF k > Len(asts) THEN <<<<>>, start>>
    ELSE LET end == index + asts[k].length
             nfa_frag == ast_to_frag(asts[k], index, <<end, None>>, NoDist)
             rest == asts_to_nfa_loop(asts, k + 1, end,
                                      IF start = None THEN nfa_frag.start ELSE start)
         IN  <<nfa_frag.states \o rest[1], rest[2]>>

\* asts_to_nfa that prepends a Start state whatever the first state is
asts_to_nfa_AlwaysStart(asts) ==
    LET r == asts_to_nfa_loop(asts, 1, 1, None)
    IN  <<State_start(r[2])>> \o r[1]

\* asts_to_nfa whose Start state points at index 1, whatever the start of
\* the first fragment
asts_to_nfa_StartToFirstIndex(asts) ==
    LET r == asts_to_nfa_loop(asts, 1, 1, None)
        states == r[1]
        start == r[2]
        start_state ==
            IF Len(states) > 0 /\ states[1].kind \in {"Start", "AnchorStart"}
            THEN <<>>
            ELSE <<State_start(1)>>
    IN  start_state \o states

asts_to_nfa(asts) ==
    LET r == asts_to_nfa_loop(asts, 1, 1, None)
        states == r[1]
        start == r[2]
        start_state ==
            IF Len(states) > 0 /\ states[1].kind \in {"Start", "AnchorStart"}
            THEN <<>>
            ELSE <<State_start(start)>>
    IN  start_state \o states

(***************************************************************************)
(* regex_state.rs: tokens, evaluate_state, initial_state,                  *)
(* terminal_state_p.                                                       *)
(***************************************************************************)
TokenStart == [kind |-> "Start", c |-> ""]
TokenLiteral(c) == [kind |-> "Literal", c |-> c]
TokenTerminal == [kind |-> "Terminal", c |-> ""]

\* Tokens without the closing Terminal token
Tokens_NoTerminal(s) ==
    <<TokenStart>> \o [i \in 1..Len(s) |-> TokenLiteral(s[i])]

\* impl From<String> for Tokens
Tokens(s) ==
    <<TokenStart>> \o [i \in 1..Len(s) |-> TokenLiteral(s[i])] \o <<TokenTerminal>>

\* HashMap<usize, f64> and HashMap<usize, u64> are functions on their key sets
EmptyMap == [i \in {} |-> F0]

Get(map, key, default) == IF key \in DOMAIN map THEN map[key] ELSE default

\* outcome of a call: the Vec<Transition> it returns, each Transition a pair
\* <<target, p>>, or the way it fails to return: "panic" (an unwrap() of an
\* Err) or "overflow" (the recursion re-enters a state of its own path and
\* never returns)
Ok(tr) == [tr |-> tr, err |-> "none"]
Err(e) == [tr |-> <<>>, err |-> e]

\* [a, b].concat(), b being evaluated only when a returned
Concat(a, b) == IF a.err # "none" THEN a ELSE [tr |-> a.tr \o b.tr, err |-> b.err]

\* match_c.iter().position(|&r| r == *c)
Position(chars, c) ==
    IF \E i \in 1..Len(chars) : chars[i] = c
    THEN (CHOOSE i \in 1..Len(chars) :
             chars[i] = c /\ \A j \in 1..(i - 1) : chars[j] # c) - 1
    ELSE None

RECURSIVE evaluate_state(_, _, _, _, _, _, _, _)
RECURSIVE evaluate_state_outs(_, _, _, _, _, _, _, _)

\* path: the states whose evaluation is in progress on the call stack
evaluate_state(idx, token, p, nfa, counts, states, is_epsilon, path) ==
    IF idx = None \/ idx >= Len(nfa) THEN Ok(<<>>)
    ELSE
    LET state == nfa[idx + 1] IN
    CASE state.kind = "Terminal" -> Ok(<< <<idx, p>> >>)
      [] state.kind = "Start" ->
            IF is_epsilon THEN Ok(<< <<idx, F1>> >>)
            ELSE Concat(Ok(<< <<idx, F1>> >>),
                        evaluate_state_outs(state.outs, token, p, nfa, counts, states,
                                            TRUE, path \cup {idx}))
      [] state.kind = "AnchorStart" ->
            IF is_epsilon THEN Ok(<< <<idx, F1>> >>)
            ELSE IF token.kind = "Start"
            THEN evaluate_state(state.outs[1], token, p, nfa, counts, states,
                                TRUE, path \cup {idx})
            ELSE Ok(<<>>)
      [] state.kind = "AnchorEnd" ->
            IF is_epsilon THEN Ok(<< <<idx, p>> >>)
            ELSE IF token.kind = "Terminal" THEN Ok(<< <<state.outs[1], p>> >>)
            ELSE Ok(<<>>)
      [] state.kind = "Split" ->
            IF idx \in path THEN Err("overflow")
            ELSE evaluate_state_outs(state.outs, token, p, nfa, counts, states,
                                     TRUE, path \cup {idx})
      [] state.kind \in {"Quantifier", "ExactQuantifier"} ->
            IF ~is_epsilon THEN Ok(<<>>)
            ELSE IF idx \in path THEN Err("overflow")
            ELSE
            LET n == Get(counts, idx, 0)
                pb == Get(states, idx, p)
                r == IF state.dist = NoDist THEN Pair(F1, F1)
                     ELSE pmf_link(state.dist, token, n, FALSE)
            IN  IF r.panic THEN Err("panic")
                ELSE Concat(Ok(<< <<idx, pb>> >>),
                     Concat(evaluate_state(state.outs[1], token, p, nfa, counts,
                                           states, TRUE, path \cup {idx}),
                            evaluate_state(state.outs[2], token, FMul(p, r.p1), nfa,
                                           counts, states, TRUE, path \cup {idx})))
      [] state.kind = "Dot" ->
            IF is_epsilon THEN Ok(<< <<idx, p>> >>)
            ELSE evaluate_state_outs(state.outs, token, p, nfa, counts, states,
                                     TRUE, path \cup {idx})
      [] state.kind = "Literal" ->
            IF is_epsilon THEN Ok(<< <<idx, p>> >>)
            ELSE IF token.kind = "Literal" /\ token.c = state.c
            THEN evaluate_state(state.outs[1], token, p, nfa, counts, states,
                                TRUE, path \cup {idx})
            ELSE Ok(<<>>)
      [] state.kind = "Class" ->
            IF is_epsilon THEN Ok(<< <<idx, p>> >>)
            ELSE IF token.kind = "Literal"
            THEN LET i == Position(state.chars, token.c)
                     is_negate == state.neg
                     r == IF state.dist # NoDist
                          THEN pmf_link(state.dist, token, i, is_negate)
                          ELSE IF i = None /\ ~is_negate THEN Pair(F1, F0)
                          ELSE IF i = None /\ is_negate THEN Pair(F1, F1)
                          ELSE IF ~is_negate THEN Pair(F1, F1)
                          ELSE Pair(F1, F0)
                 IN  IF r.panic THEN Err("panic")
                     ELSE evaluate_state(state.outs[1], token, FMul(p, r.p1), nfa,
                                         counts, states, TRUE, path \cup {idx})
            ELSE Ok(<<>>)
      [] OTHER -> Ok(<<>>)

evaluate_state_outs(outs, token, p, nfa, counts, states, is_epsilon, path) ==
    Concat(evaluate_state(outs[1], token, p, nfa, counts, states, is_epsilon, path),
           evaluate_state(outs[2], token, p, nfa, counts, states, is_epsilon, path))

\* Iterator::collect into a HashMap: a later pair replaces an earlier one
\* with the same key; transitions to None are dropped
RECURSIVE Collect(_, _)
Collect(tr, map) ==
    IF tr = <<>> THEN map
    ELSE Collect(Tail(tr),
                 IF Head(tr)[1] = None THEN map
                 ELSE (Head(tr)[1] :> Head(tr)[2]) @@ map)

\* initial_state that follows the edges of state 0 at once
initial_state_SkipStart(nfa, skip_start) ==
    Collect(evaluate_state(0, TokenStart, F1, nfa, EmptyMap, EmptyMap,
                           skip_start, {}).tr, EmptyMap)

initial_state(nfa, skip_start) ==
    Collect(evaluate_state(0, TokenStart, F1, nfa, EmptyMap, EmptyMap,
                           ~skip_start, {}).tr, EmptyMap)

\* Option<f64>
Some(p) == [tag |-> "Some", p |-> p]
NoneF64 == [tag |-> "None", p |-> FNaN]

idx_terminal(nfa) == Len(nfa) - 1

terminal_state_p(states, nfa) ==
    IF idx_terminal(nfa) \in DOMAIN states
    THEN Some(states[idx_terminal(nfa)])
    ELSE NoneF64

(***************************************************************************)
(* regex.rs: step_states, add_counts, match_likelihood.                    *)
(***************************************************************************)
\* the merge with the later transition replacing the earlier one
MergeTransition_LastWins(next, transition) ==
    LET out == transition[1]
        new_p == transition[2]
    IN  IF out = None THEN next ELSE (out :> new_p) @@ next

\* a merge that adds the weights reaching one target
MergeTransition_Sum(next, transition) ==
    LET out == transition[1]
        new_p == transition[2]
    IN  IF out = None THEN next
        ELSE IF out \in DOMAIN next THEN (out :> FAdd(next[out], new_p)) @@ next
        ELSE (out :> new_p) @@ next

\* the body of the inner loop of step_states: merge one transition
MergeTransition(next, transition) ==
    LET out == transition[1]
        new_p == transition[2]
    IN  IF out = None THEN next
        ELSE LET old_p == Get(next, out, new_p)
             IN  (out :> FMax(old_p, new_p)) @@ next

RECURSIVE MergeTransitions(_, _)
MergeTransitions(next, transitions) ==
    IF transitions = <<>> THEN next
    ELSE MergeTransitions(MergeTransition(next, Head(transitions)), Tail(transitions))

\* the outer loop of step_states over the entries of states in the given
\* order; transitions[i] is what evaluate_state returns for entry i
RECURSIVE step_states_loop(_, _, _)
step_states_loop(order, next, transitions) ==
    IF order = <<>> THEN [next |-> next, err |-> "none"]
    ELSE LET r == transitions[Head(order)]
         IN  IF r.err # "none" THEN [next |-> EmptyMap, err |-> r.err]
             ELSE step_states_loop(Tail(order), MergeTransitions(next, r.tr),
                                   transitions)

\* the orders in which the keys S of a HashMap can be iterated
RECURSIVE Orders(_)
Orders(S) ==
    IF S = {} THEN {<<>>}
    ELSE UNION {{<<x>> \o o : o \in Orders(S \ {x})} : x \in S}

\* a quantifier entry of states evaluated as if it were reached by an
\* epsilon move
entry_transitions_QuantifierEpsilon(states, counts, token, nfa) ==
    [state \in DOMAIN states |->
        evaluate_state(state, token, states[state], nfa, counts, states,
                       nfa[state + 1].kind \in {"Quantifier", "ExactQuantifier"}, {})]

\* what evaluate_state returns for each entry (state, p) of states
entry_transitions(states, counts, token, nfa) ==
    [state \in DOMAIN states |->
        evaluate_state(state, token, states[state], nfa, counts, states, FALSE, {})]

\* step_states: the iteration order of a HashMap is unspecified, so the
\* result is one of the maps next that some order of the entries produces
step_states(states, counts, token, nfa) ==
    LET transitions == entry_transitions(states, counts, token, nfa)
    IN  {step_states_loop(order, EmptyMap, transitions) :
            order \in Orders(DOMAIN states)}

\* add_counts that counts every state of the active set, whatever its weight
add_counts_AnyWeight(states, counts) ==
    [state \in DOMAIN counts \cup DOMAIN states |->
        IF state \in DOMAIN states THEN Get(counts, state, 0) + 1 ELSE counts[state]]

\* add_counts that keeps only the states of the new active set
add_counts_Reset(states, counts) ==
    [state \in {i \in DOMAIN states : FLt(F0, states[i])} |->
        Get(counts, state, 0) + 1]

add_counts(states, counts) ==
    [state \in DOMAIN counts \cup {i \in DOMAIN states : FLt(F0, states[i])} |->
        IF state \in DOMAIN states /\ FLt(F0, states[state])
        THEN Get(counts, state, 0) + 1
        ELSE counts[state]]

(***************************************************************************)
(* The patterns and inputs of the model: what parse returns for the        *)
(* sources  ^? X $?  with X built from the literals a and b, '.', the      *)
(* class [a], the classes [ab~Dist], the quantifiers ?, *, +, {n} and      *)
(* {n~Dist}, concatenation, alternation and grouping.                      *)
(***************************************************************************)
Alphabet == {"a", "b"}

ShortQuantifiers == {Quantifier(c) : c \in {"?", "*", "+"}}

ExactQuantifiers == {ExactQuantifier(n) : n \in 0..MaxExact}

Atoms ==
    {Literal("a"), Literal("b"), Dot, Class(<<"a">>),
     Concatenation(Literal("a"), Literal("b"))}

\* x?, x*, x+, x{n}
QuantifiedAtoms ==
    {Quantified(x, q, NoClause) :
        x \in {Literal("a"), Dot}, q \in ShortQuantifiers \cup ExactQuantifiers}

QuantifierClauses ==
    {Clause("geo", F0), Clause("geo", FHalf), Clause("const", FHalf),
     Clause("zipf", F1)}

\* a{n~Dist(p)}
DistQuantified ==
    {Quantified(Literal("a"), q, cl) : q \in ExactQuantifiers, cl \in QuantifierClauses}

\* [ab~Dist(p)]
\* the named parameters of the enumerated ~Cat(..) clauses:
\* (a=0.5), (a=0.5, b=0.25), (a=0.25, .=0.5)
CatParams ==
    {("a" :> FHalf), ("a" :> FHalf @@ "b" :> Frac(1, 4)),
     ("a" :> Frac(1, 4) @@ "." :> FHalf)}

DistClasses ==
    {LongClass(Class(<<"a", "b">>), cl) :
        cl \in {Clause("geo", FHalf), Clause("zipf", F1), Clause("const", FHalf)}}
    \cup {LongClass(Class(<<"a", "b">>), CatClause(named)) : named \in CatParams}

\* [ab~Geo(0.5)]a*, [ab~Geo(0.5)]a{1~Geo(0.5)}: a quantified operand entered
\* with the weight a class distribution leaves
WeightedQuantified ==
    LET c == LongClass(Class(<<"a", "b">>), Clause("geo", FHalf))
    IN  {Concatenation(c, Quantified(Literal("a"), Quantifier("*"), NoClause)),
         Concatenation(c, Quantified(Literal("a"), ExactQuantifier(1),
                                     Clause("geo", FHalf)))}

Units ==
    Atoms \cup QuantifiedAtoms \cup DistQuantified \cup DistClasses
    \cup WeightedQuantified

\* (a?)*, (a*|b)+, (a?b)*, ...
NestedQuantified ==
    LET inner == {Quantified(Literal("a"), q, NoClause) : q \in ShortQuantifiers}
    IN  {Quantified(x, q, NoClause) : x \in inner, q \in ShortQuantifiers}
        \cup {Quantified(Alternation(x, Literal("b")), Quantifier("*"), NoClause) :
                 x \in inner}
        \cup {Quantified(Concatenation(x, Literal("b")), Quantifier("*"), NoClause) :
                 x \in inner}

Compounds ==
    {Concatenation(Literal("b"), u) : u \in QuantifiedAtoms}
    \cup {Concatenation(u, Literal("b")) : u \in QuantifiedAtoms}
    \cup {Alternation(u, Literal("b")) : u \in Atoms \cup QuantifiedAtoms}
    \cup NestedQuantified

Expressions == Units \cup Compounds

\* parse(source): the top-level nodes, ending with the Terminal of Rule::EOI
Patterns ==
    {<<AnchorStart, x, AnchorEnd, Terminal>> : x \in Expressions}
    \cup {s \o <<x>> \o e \o <<Terminal>> :
             s \in {<<>>, <<AnchorStart>>}, x \in Units, e \in {<<>>, <<AnchorEnd>>}}

RECURSIVE Strings(_)
Strings(n) ==
    IF n = 0 THEN {<<>>}
    ELSE Strings(n - 1) \cup
         {Append(s, c) : s \in {t \in Strings(n - 1) : Len(t) = n - 1}, c \in Alphabet}

Inputs == Strings(MaxInputLen)

(***************************************************************************)
(* The program: compile(source), then match_likelihood(nfa, input).        *)
(* tokens is the local Vec<Token> of match_likelihood, pos the position of *)
(* its loop in tokens, seen the tokens handed to step_states so far.       *)
(***************************************************************************)
VARIABLES asts, input, nfa, pc, tokens, pos, seen, states, counts, result

vars == <<asts, input, nfa, pc, tokens, pos, seen, states, counts, result>>

Pending == [tag |-> "pending", p |-> FNaN]

Init ==
    /\ asts \in Patterns
    /\ input \in Inputs
    /\ nfa = <<>>
    /\ pc = "parsed"
    /\ tokens = <<>>
    /\ pos = 0
    /\ seen = <<>>
    /\ states = EmptyMap
    /\ counts = EmptyMap
    /\ result = Pending

\* compile: asts_to_nfa(parse(source))
compile ==
    /\ pc = "parsed"
    /\ nfa' = asts_to_nfa(asts)
    /\ pc' = "compiled"
    /\ UNCHANGED <<asts, input, tokens, pos, seen, states, counts, result>>

\* match_likelihood up to its loop
match_likelihood_begin ==
    /\ pc = "compiled"
    /\ states' = initial_state(nfa, FALSE)
    /\ counts' = EmptyMap
    /\ tokens' = Tokens(input)
    /\ pos' = 1
    /\ pc' = "loop"
    /\ UNCHANGED <<asts, input, nfa, seen, result>>

\* one iteration of the loop of match_likelihood; a panic or a stack
\* overflow inside step_states ends the process
match_likelihood_step ==
    /\ pc = "loop"
    /\ pos <= Len(tokens)
    /\ seen' = Append(seen, tokens[pos])
    /\ \E r \in step_states(states, counts, tokens[pos], nfa) :
              IF r.err = "none"
              THEN /\ states' = r.next
                   /\ counts' = add_counts(r.next, counts)
                   /\ pos' = pos + 1
                   /\ pc' = pc
              ELSE /\ pc' = r.err
                   /\ UNCHANGED <<states, counts, pos>>
    /\ UNCHANGED <<asts, input, nfa, tokens, result>>

\* the value match_likelihood returns after the loop
match_likelihood_return ==
    /\ pc = "loop"
    /\ pos > Len(tokens)
    /\ result' = Some(F0)
    /\ pc' = "done"
    /\ UNCHANGED <<asts, input, nfa, tokens, pos, seen, states, counts>>

Next ==
    \/ compile
    \/ match_likelihood_begin
    \/ match_likelihood_step
    \/ match_likelihood_return

Spec == Init /\ [][Next]_vars

(***************************************************************************)
(* Reference notions the properties are stated with.                       *)
(***************************************************************************)
\* the pattern is ^X$ (parse gives AnchorStart, X, AnchorEnd, Terminal)
IsAnchored(pattern) ==
    /\ Len(pattern) = 4
    /\ pattern[1].kind = "AnchorStart"
    /\ pattern[3].kind = "AnchorEnd"

\* the expression carries a distribution clause ~Name(p)
RECURSIVE HasClause(_)
HasClause(ast) ==
    CASE ast.kind = "Classified" -> TRUE
      [] ast.kind = "Quantified" ->
            \/ ast.dist.link # "None" /\ ast.dist.dist.name # "ExactlyTimes"
            \/ HasClause(ast.operand)
      [] ast.kind \in {"Alternation", "Concatenation"} ->
            HasClause(ast.left) \/ HasClause(ast.right)
      [] OTHER -> FALSE

PatternHasClause(pattern) == \E k \in 1..Len(pattern) : HasClause(pattern[k])

\* X, read as a classical regular expression, matches the whole of s
RECURSIVE Matches(_, _)
RECURSIVE MatchesTimes(_, _, _)
Matches(ast, s) ==
    CASE ast.kind = "Literal" -> Len(s) = 1 /\ s[1] = ast.c
      [] ast.kind = "Dot" -> Len(s) = 1
      [] ast.kind = "Class" ->
            Len(s) = 1 /\ \E i \in 1..Len(ast.chars) : ast.chars[i] = s[1]
      [] ast.kind = "Concatenation" ->
            \E k \in 0..Len(s) :
                /\ Matches(ast.left, SubSeq(s, 1, k))
                /\ Matches(ast.right, SubSeq(s, k + 1, Len(s)))
      [] ast.kind = "Alternation" -> Matches(ast.left, s) \/ Matches(ast.right, s)
      [] ast.kind = "Quantified" ->
            IF ast.quantifier.kind = "ExactQuantifier"
            THEN MatchesTimes(ast.operand, s, ast.quantifier.n)
            ELSE IF ast.quantifier.c = "?"
            THEN Len(s) = 0 \/ Matches(ast.operand, s)
            ELSE IF ast.quantifier.c = "*"
            THEN \E k \in 0..Len(s) : MatchesTimes(ast.operand, s, k)
            ELSE \E k \in 1..(Len(s) + 1) : MatchesTimes(ast.operand, s, k)

\* s is k consecutive matches of ast
MatchesTimes(ast, s, k) ==
    IF k = 0 THEN Len(s) = 0
    ELSE \E j \in 0..Len(s) :
            /\ Matches(ast, SubSeq(s, 1, j))
            /\ MatchesTimes(ast, SubSeq(s, j + 1, Len(s)), k - 1)

\* the tokens of the input s: Start, one Literal per character, Terminal
ExpectedTokens(s) ==
    [i \in 1..(Len(s) + 2) |->
        IF i = 1 THEN TokenStart
        ELSE IF i = Len(s) + 2 THEN TokenTerminal
        ELSE TokenLiteral(s[i - 1])]

InUnitInterval(p) == FLe(F0, p) /\ FLe(p, F1)

\* the loop of match_likelihood is about to hand tokens[pos] to step_states
AtStep == pc = "loop" /\ pos <= Len(tokens)

\* the weights of the transitions to target that the entries of the active
\* set produce for the token
WeightsTo(target, transitions) ==
    {transitions[i].tr[k][2] :
        <<i, k>> \in {ik \in UNION {{<<i, k>> : k \in 1..Len(transitions[i].tr)} :
                                       i \in DOMAIN transitions} :
                         transitions[ik[1]].tr[ik[2]][1] = target}}

\* p is the largest weight of W, a NaN weight counting only when alone
IsMaxOf(p, W) ==
    /\ p \in W
    /\ \A q \in W : IsNaN(q) \/ (~IsNaN(p) /\ FLe(q, p))

(***************************************************************************)
(* Properties.                                                             *)
(***************************************************************************)
\* C1: match_likelihood returns Some(p) only when the terminal state is in
\* the active set with weight p > 0 after the Terminal token; when it is
\* absent or has weight 0 the result is None, never Some(0.0).
C1_SomeOnlyForPositiveTerminal ==
    pc = "done" =>
        LET t == terminal_state_p(states, nfa)
        IN  IF t.tag = "Some" /\ FLt(F0, t.p)
            THEN result = Some(t.p)
            ELSE result = NoneF64

\* C2: for a pattern ^X$ without distribution clauses the result is None
\* if and only if X, as a classical regular expression, does not match the
\* whole input.
C2_NoneIffNoClassicalMatch ==
    (pc = "done" /\ IsAnchored(asts) /\ ~HasClause(asts[2])) =>
        ((result = NoneF64) <=> ~Matches(asts[2], input))

\* C3: evaluate_state terminates for every state of the active set and
\* every token: its recursion never re-enters a state that is on its own
\* recursion path.
C3_EpsilonClosureTerminates ==
    AtStep =>
        \A i \in DOMAIN states :
            evaluate_state(i, tokens[pos], states[i], nfa, counts, states,
                           FALSE, {}).err # "overflow"

\* C4: for a pattern without distribution clauses the result is Some(1.0)
\* or None.
C4_BooleanWithoutClauses ==
    (pc = "done" /\ ~PatternHasClause(asts)) =>
        (result = Some(F1) \/ result = NoneF64)

\* C5: every weight of the active set lies in [0, 1] after every step, and
\* a result Some(p) has 0 <= p <= 1.
C5_WeightsInUnitInterval ==
    /\ \A i \in DOMAIN states : InUnitInterval(states[i])
    /\ result.tag = "Some" => InUnitInterval(result.p)

\* C6: once compile has returned an NFA, match_likelihood never aborts: it
\* neither panics nor recurses without bound.
C6_SimulationNeverAborts == pc \notin {"panic", "overflow"}

\* C7: the steps of the simulation take the tokens Start, Literal(s[0]),
\* ..., Literal(s[n-1]), Terminal in this order, one step per token; a
\* result exists only after all n + 2 steps.
C7_OneStepPerToken ==
    /\ Len(seen) <= Len(input) + 2
    /\ seen = SubSeq(ExpectedTokens(input), 1, Len(seen))
    /\ (pc = "done" \/ result # Pending) =>
           /\ Len(seen) = Len(input) + 2
           /\ seen[Len(seen)] = TokenTerminal

C7_Witness == pc = "done" /\ Len(input) = 2 /\ Len(seen) = 4

\* C8: the outcome of a step does not depend on the order in which the
\* entries of the active set are visited nor on the order in which the
\* transitions to one target are merged: every order gives the same active
\* set, which holds for each target the largest weight sent to it, and the
\* same counts.
C8_OrderIndependent ==
    AtStep =>
        LET transitions == entry_transitions(states, counts, tokens[pos], nfa)
        IN  \A r1 \in step_states(states, counts, tokens[pos], nfa) :
                /\ \A r2 \in step_states(states, counts, tokens[pos], nfa) :
                       /\ r1 = r2
                       /\ add_counts(r1.next, counts) = add_counts(r2.next, counts)
                /\ r1.err = "none" =>
                       \A target \in DOMAIN r1.next :
                           IsMaxOf(r1.next[target], WeightsTo(target, transitions))

\* two entries of the active set send different weights to one target
C8_Witness ==
    /\ AtStep
    /\ LET transitions == entry_transitions(states, counts, tokens[pos], nfa)
       IN  /\ \A i \in DOMAIN transitions : transitions[i].err = "none"
           /\ \E i, j \in DOMAIN transitions :
                 /\ i # j
                 /\ \E k \in 1..Len(transitions[i].tr), l \in 1..Len(transitions[j].tr) :
                       /\ transitions[i].tr[k][1] = transitions[j].tr[l][1]
                       /\ transitions[i].tr[k][2] # transitions[j].tr[l][2]

\* C9: every Some(i) in the outs of a state of the compiled NFA is a valid
\* index of the NFA.
C9_OutsInRange ==
    pc # "parsed" =>
        \A i \in 1..Len(nfa) : \A k \in 1..2 :
            nfa[i].outs[k] = None \/ nfa[i].outs[k] \in 0..(Len(nfa) - 1)

\* a compiled NFA with a quantifier, whose two outs are both Some
C9_Witness ==
    /\ pc = "compiled"
    /\ \E i \in 1..Len(nfa) :
          /\ nfa[i].kind \in {"Quantifier", "ExactQuantifier"}
          /\ nfa[i].outs[1] # None
          /\ nfa[i].outs[2] # None

T == idx_terminal(nfa)

\* the pattern has a $
HasAnchorEnd(pattern) == \E k \in 1..Len(pattern) : pattern[k].kind = "AnchorEnd"

\* a step of the loop of match_likelihood that returned
Stepped == pc = "loop" /\ pc' = "loop" /\ pos' = pos + 1

\* the terminal state, once in the active set, stays in it with a weight
\* that does not decrease
TerminalWeightKept ==
    [][(Stepped /\ T \in DOMAIN states) =>
           (T \in DOMAIN states' /\ FLe(states[T], states'[T]))]_vars

\* C11: the terminal state, once in the active set with weight p, is in
\* it with weight at least p after every later step; hence without $ the
\* returned likelihood is at least the weight the terminal state had after
\* any step (abc on abcd gives Some(1.0)).
C11_TerminalKeptAndReturned ==
    [][/\ (Stepped /\ T \in DOMAIN states) =>
              (T \in DOMAIN states' /\ FLe(states[T], states'[T]))
       /\ (pc' = "done" /\ ~HasAnchorEnd(asts)
             /\ T \in DOMAIN states /\ FLt(F0, states[T])) =>
              (result'.tag = "Some" /\ FLe(states[T], result'.p))]_vars

\* the states that the epsilon closure of state i stores with the weight
\* it was entered with: i itself, through a Split both branches, through a
\* quantifier also the entry of its operand
RECURSIVE Seeds(_)
Seeds(i) ==
    IF i = None \/ i >= Len(nfa) THEN {}
    ELSE LET state == nfa[i + 1] IN
         CASE state.kind = "Split" -> Seeds(state.outs[1]) \cup Seeds(state.outs[2])
           [] state.kind \in {"Quantifier", "ExactQuantifier"} ->
                 {i} \cup Seeds(state.outs[1])
           [] OTHER -> {i}

\* word occurs in s at some position
Occurs(word, s) ==
    \E i \in 1..(Len(s) - Len(word) + 1) : SubSeq(s, i, i + Len(word) - 1) = word

\* the unanchored patterns made of literals only, with the word they spell
LiteralWords ==
    { <<Literal("a"), <<"a">> >>, <<Literal("b"), <<"b">> >>,
      <<Concatenation(Literal("a"), Literal("b")), <<"a", "b">> >> }

\* C12: when state 0 is a Start state, after every step it is in the
\* active set with weight exactly 1.0 and so are the states its epsilon
\* closure seeds; so a pattern without ^ begins matching at any input
\* position: a word of literals that occurs anywhere in the input has
\* brought the terminal state to weight 1.0 at the end (ab matches xab).
C12_StartReseeds ==
    /\ (pc \in {"loop", "done"} /\ pos > 1 /\ nfa[1].kind = "Start") =>
           /\ 0 \in DOMAIN states /\ states[0] = F1
           /\ \A s \in Seeds(nfa[1].outs[1]) : s \in DOMAIN states /\ states[s] = F1
    /\ \A lw \in LiteralWords :
           (pc = "done" /\ asts = <<lw[1], Terminal>> /\ Occurs(lw[2], input)) =>
               (T \in DOMAIN states /\ states[T] = F1)

\* ab has matched bab: the match began at the second position
C12_Witness ==
    /\ pc = "done" /\ asts = <<Concatenation(Literal("a"), Literal("b")), Terminal>>
    /\ input = <<"b", "a", "b">>
    /\ nfa[1].kind = "Start" /\ states[0] = F1
    /\ T \in DOMAIN states /\ states[T] = F1

\* the number of characters of the input consumed so far
Consumed == IF pos - 2 < Len(input) THEN pos - 2 ELSE Len(input)

\* the first k characters of s, or all of s when it is shorter
Prefix(s, k) == SubSeq(s, 1, IF k < Len(s) THEN k ELSE Len(s))

\* the consumed input has left the word: some consumed character differs
\* from the word's, or the input went on after the word before a $
Mismatched(word, anchored_end) ==
    \/ Prefix(input, Consumed) # Prefix(word, Consumed) /\ Consumed <= Len(word)
    \/ Prefix(input, Len(word)) # word /\ Consumed > Len(word)
    \/ anchored_end /\ Consumed > Len(word)

\* C13: when state 0 is AnchorStart it is not in the active set after any
\* step, so a pattern that begins with ^ matches from position 0 only: for
\* ^w and ^w$ with w a word of literals, once the consumed input differs
\* from w the active set is empty and stays empty, and the terminal state
\* is reached only when the input begins with w (^ab does not match xab).
C13_AnchorStartOnlyAtStart ==
    (pc \in {"loop", "done"} /\ pos > 1) =>
        /\ nfa[1].kind = "AnchorStart" => 0 \notin DOMAIN states
        /\ \A lw \in LiteralWords :
              /\ asts = <<AnchorStart, lw[1], Terminal>> =>
                    /\ Mismatched(lw[2], FALSE) => states = EmptyMap
                    /\ T \in DOMAIN states => Prefix(input, Len(lw[2])) = lw[2]
              /\ asts = <<AnchorStart, lw[1], AnchorEnd, Terminal>> =>
                    /\ Mismatched(lw[2], TRUE) => states = EmptyMap
                    /\ T \in DOMAIN states => input = lw[2]

\* ^ab on bab: the active set is empty after the first character and at the end
C13_Witness ==
    /\ pc = "done" /\ asts = <<AnchorStart, Concatenation(Literal("a"), Literal("b")), Terminal>>
    /\ input = <<"b", "a", "b">>
    /\ nfa[1].kind = "AnchorStart" /\ states = EmptyMap

\* the index of the AnchorEnd state of a pattern that ends with $
E == T - 1

\* an AnchorEnd state in the active set forwards its weight to the terminal
\* state on the Terminal token and on no other token, and the terminal
\* state of a pattern that ends with $ is reached in no other way
AnchorEndForwards ==
    [][(Stepped /\ HasAnchorEnd(asts)) =>
          /\ nfa[E + 1].kind = "AnchorEnd"
          /\ (E \in DOMAIN states /\ tokens[pos].kind = "Terminal") =>
                 (T \in DOMAIN states' /\ states'[T] = states[E])
          /\ (E \notin DOMAIN states \/ tokens[pos].kind # "Terminal") =>
                 T \notin DOMAIN states']_vars

\* C14: an AnchorEnd state reached with weight p forwards exactly p to the
\* terminal state when, and only when, the next token is the synthetic
\* Terminal; so a pattern ending with $ yields None whenever the terminal
\* state was not reached, in particular when input remains after the match.
C14_AnchorEndForwardsAndNone ==
    [][/\ (Stepped /\ HasAnchorEnd(asts)) =>
              /\ (E \in DOMAIN states /\ tokens[pos].kind = "Terminal") =>
                     (T \in DOMAIN states' /\ states'[T] = states[E])
              /\ (E \notin DOMAIN states \/ tokens[pos].kind # "Terminal") =>
                     T \notin DOMAIN states'
       /\ (pc' = "done" /\ HasAnchorEnd(asts) /\ T \notin DOMAIN states) =>
              result' = NoneF64]_vars

\* s is the operand x (a literal or the dot) repeated exactly n times
Repeats(x, s, n) ==
    Len(s) = n /\ \A i \in 1..Len(s) : x.kind = "Dot" \/ s[i] = x.c

\* C15: for every n >= 0 the anchored pattern ^X{n}$ without a distribution
\* clause brings the terminal state to weight 1.0 exactly when the input is
\* X repeated exactly n times, and to no positive weight for fewer or for
\* more repetitions.
C15_ExactlyNTimes ==
    \A x \in {Literal("a"), Dot} : \A q \in ExactQuantifiers :
        (pc = "done"
           /\ asts = <<AnchorStart, Quantified(x, q, NoClause), AnchorEnd, Terminal>>) =>
            IF Repeats(x, input, q.n)
            THEN T \in DOMAIN states /\ states[T] = F1
            ELSE T \notin DOMAIN states \/ states[T] = F0

\* C16: for ^a{n~Geo(p)}$ on k copies of a the terminal state is not
\* reached with positive weight when k < n and is reached with weight
\* p * (1 - p)^(k - n) when k >= n (here p = 1/2).
C16_GeometricQuantifier ==
    \A q \in ExactQuantifiers :
        (pc = "done"
           /\ asts = <<AnchorStart, Quantified(Literal("a"), q, Clause("geo", FHalf)),
                       AnchorEnd, Terminal>>
           /\ Repeats(Literal("a"), input, Len(input))) =>
            IF Len(input) < q.n
            THEN T \notin DOMAIN states \/ states[T] = F0
            ELSE /\ T \in DOMAIN states
                 /\ states[T] = FMul(FHalf, FPow(FSub(F1, FHalf), Len(input) - q.n))

\* c is one of chars
Member(c, chars) == \E i \in 1..Len(chars) : chars[i] = c

\* the Class state of ^[a]$ (index 1), holding weight p when a Literal
\* token c is processed, forwards p to the AnchorEnd state (index 2) when c
\* is a member and the state is not negated or c is no member and the state
\* is negated, and weight 0 otherwise
ClassForwards ==
    [][(Stepped /\ asts = <<AnchorStart, Class(<<"a">>), AnchorEnd, Terminal>>
          /\ tokens[pos].kind = "Literal" /\ 1 \in DOMAIN states) =>
           /\ 2 \in DOMAIN states'
           /\ states'[2] = IF Member(tokens[pos].c, nfa[2].chars) # nfa[2].neg
                           THEN states[1] ELSE F0]_vars

\* C17: a class without a distribution, written by the user without a
\* leading ^, forwards the incoming weight on a member and weight 0 on a
\* non-member: ^[a]$ brings the terminal state to weight 1.0 on a and to no
\* positive weight on b.
C17_PlainClass ==
    (pc = "done" /\ asts = <<AnchorStart, Class(<<"a">>), AnchorEnd, Terminal>>
       /\ Len(input) = 1) =>
        IF Member(input[1], <<"a">>)
        THEN T \in DOMAIN states /\ states[T] = F1
        ELSE T \notin DOMAIN states \/ states[T] = F0

\* the classes as written whose ASTs the enumerated patterns hold
WrittenClasses ==
    {CharacterClass(negated, chars) :
        negated \in BOOLEAN, chars \in {<<"a">>, <<"a", "b">>}}

\* the Class node of an AST node, which is the node itself or the operand
\* of a class with a distribution
ClassOf(ast) == IF ast.kind = "Classified" THEN ast.inner ELSE ast

\* C18: the AST built for a bracketed class is Class(negated, chars) with
\* negated = true exactly when the class is written with a leading ^, and
\* chars the members in source order.
C18_ClassNegation ==
    \A pair \in WrittenClasses : \A k \in 1..Len(asts) :
        (asts[k].kind \in {"Class", "Classified"}
           /\ ClassOf(asts[k]) = build_ast_from_class(pair)) =>
            /\ ClassOf(asts[k]).neg = pair.negated
            /\ ClassOf(asts[k]).chars = pair.chars

\* the named parameters over which complete_from is applied directly: every
\* assignment of 1/4 or 1/2 to some of a, b and "."
CatNamed ==
    UNION {[K -> {Frac(1, 4), FHalf}] : K \in SUBSET {"a", "b", "."}}

\* the member lists over which complete_from is applied directly
CatChars == {<<"a">>, <<"a", "b">>, <<"b", "a">>}

\* pm has one entry more than chars; its entry 0 is the mass named for
\* "." when there is one; its entry i is the mass named for the i-th
\* member when there is one, and the members without a named mass share
\* one mass
CatVectorOk(pm, chars, named) ==
    /\ Len(pm) = Len(chars) + 1
    /\ "." \in DOMAIN named => pm[1] = named["."]
    /\ \A i \in 1..Len(chars) :
          /\ chars[i] \in DOMAIN named => pm[i + 1] = named[chars[i]]
          /\ \A j \in 1..Len(chars) :
                (chars[i] \notin DOMAIN named /\ chars[j] \notin DOMAIN named) =>
                    pm[i + 1] = pm[j + 1]

\* the AST node k is a class with a ~Cat(..) clause
IsCatClass(k) ==
    asts[k].kind = "Classified" /\ asts[k].dist.dist.name = "Categorical"

\* C20: the Categorical vector built for a class with k characters has
\* exactly k+1 entries: entry 0 is the remainder mass and entries 1..k are
\* the masses of the members in the order of the class's character list,
\* for negated and non-negated classes alike.
C20_CategoricalVector ==
    \A k \in 1..Len(asts) : IsCatClass(k) =>
        /\ \A named \in CatParams :
              asts[k] = LongClass(asts[k].inner, CatClause(named)) =>
                  CatVectorOk(asts[k].dist.dist.pm, asts[k].inner.chars, named)
        /\ pc = "parsed" =>
              \A is_negate \in BOOLEAN : \A c \in CatChars : \A named \in CatNamed :
                  (\A key \in DOMAIN named : key = "." \/ Member(key, c)) =>
                      CatVectorOk(complete_from_cat(is_negate, c, named).pm, c, named)

\* [ab~Cat(a=0.5)] was parsed and matched: the vector is (1/2, 1/2, 0)
C20_Witness ==
    /\ pc = "done"
    /\ \E k \in 1..Len(asts) :
          /\ IsCatClass(k)
          /\ asts[k] = LongClass(Class(<<"a", "b">>), CatClause("a" :> FHalf))
          /\ asts[k].dist.dist.pm = <<FHalf, FHalf, F0>>

\* the point at which an Indexed distribution d is evaluated for the
\* class member at 0-based position i
IndexedX(d, i) ==
    CASE d.name \in {"PZipf", "Categorical"} -> i + 1
      [] d.name = "Constant" -> 0
      [] OTHER -> i

\* the pattern is ^[..~D]$ and the input one character of the class
OneMemberOfDistClass ==
    /\ Len(asts) = 4 /\ asts[1] = AnchorStart /\ asts[3] = AnchorEnd
    /\ asts[2] \in DistClasses
    /\ Len(input) = 1 /\ Member(input[1], asts[2].inner.chars)

\* the weight the claim gives to the single input character
ExpectedIndexedWeight ==
    LET d == asts[2].dist.dist
        i == Position(asts[2].inner.chars, input[1])
    IN  FMul(F1, evaluate(d, IndexedX(d, i)).p1)

\* for ^[..~D]$ on one member of the class the terminal state ends with
\* the weight 1.0 * p1
IndexedClassWeights ==
    (pc = "done" /\ OneMemberOfDistClass) =>
        (T \in DOMAIN states /\ states[T] = ExpectedIndexedWeight)

\* C19: a class with an Indexed distribution forwards p * p1 on the member
\* at 0-based position i, p1 being the distribution at i+1 for Zipf and
\* Categorical, at 0 for Constant and at i otherwise; so ^[..~D]$ on one
\* member gives the likelihood p1 (^[ab~Geo(0.5)]$ gives 0.5, 0.25 for a, b
\* and ^[ab~Zipf(1.0)]$ gives 2/3, 1/3).
C19_IndexedClassLikelihood ==
    (pc = "done" /\ OneMemberOfDistClass) =>
        /\ T \in DOMAIN states /\ states[T] = ExpectedIndexedWeight
        /\ result = Some(ExpectedIndexedWeight)

\* the sum of the per-character weights named in the clause
NamedSum(named) == SumMass(named, DOMAIN named \ {"."})

\* the number of implicit slots
ImplicitCount(c, named) ==
    LET n == Len(c) - Cardinality(DOMAIN named \ {"."})
    IN  IF n > 1 THEN n ELSE 1

\* w_rest as stated: the "." argument, by default max(0, 1 - sum of named)
StatedRest(named) ==
    IF "." \in DOMAIN named THEN named["."]
    ELSE FMax(F0, FSub(F1, NamedSum(named)))

\* the implicit per-slot weight as stated
StatedImplicit(c, named) ==
    FDiv(FMax(F0, FSub(FSub(F1, NamedSum(named)), StatedRest(named))),
         Frac(ImplicitCount(c, named), 1))

\* m has the remainder and the implicit masses as stated
CatWeightsAsStated(m, c, named) ==
    /\ m.remainder = StatedRest(named)
    /\ \A i \in 1..Len(c) :
          c[i] \notin DOMAIN named => m.chars[i] = StatedImplicit(c, named)

\* for a class that is not negated: the implicit per-slot weight is
\* max(0, 1 - sum of all named weights, "." included) / implicit_count, and
\* the default of the remainder is max(0, 1 - sum of the per-character
\* masses, implicit ones included)
CatWeightsNotNegated(m, c, named) ==
    LET given == IF "." \in DOMAIN named THEN named["."] ELSE F0
        implicit == FDiv(FMax(F0, FSub(FSub(F1, NamedSum(named)), given)),
                         Frac(ImplicitCount(c, named), 1))
    IN  /\ \A i \in 1..Len(c) : c[i] \notin DOMAIN named => m.chars[i] = implicit
        /\ m.remainder = IF "." \in DOMAIN named THEN named["."]
                         ELSE FMax(F0, FSub(F1, FSum(m.chars)))

\* the arguments over which the "cat" arm is applied directly
CatArguments ==
    {<<is_negate, c, named>> \in BOOLEAN \X CatChars \X CatNamed :
        \A key \in DOMAIN named : key = "." \/ Member(key, c)}

\* a class with a ~Cat(..) clause has just been parsed
CatParsed == pc = "parsed" /\ \E k \in 1..Len(asts) : IsCatClass(k)

RECURSIVE RuleLength(_)
RuleLength(ast) ==
    CASE ast.kind \in {"Literal", "Dot", "Class", "Classified"} -> 1
      [] ast.kind \in {"Quantifier", "ExactQuantifier"} -> 1
      [] ast.kind = "Quantified" -> RuleLength(ast.operand) + 1
      [] ast.kind = "Concatenation" -> RuleLength(ast.left) + RuleLength(ast.right)
      [] ast.kind = "Alternation" -> RuleLength(ast.left) + RuleLength(ast.right) + 1
      [] ast.kind = "AnchorStart" -> 0
      [] ast.kind = "AnchorEnd" -> 1
      [] ast.kind = "Terminal" -> 0

\* ast and every node below it carry the length of the rules
RECURSIVE LengthsOk(_)
LengthsOk(ast) ==
    /\ ast.length = RuleLength(ast)
    /\ CASE ast.kind = "Quantified" ->
                LengthsOk(ast.operand) /\ LengthsOk(ast.quantifier)
         [] ast.kind \in {"Concatenation", "Alternation"} ->
                LengthsOk(ast.left) /\ LengthsOk(ast.right)
         [] ast.kind = "Classified" -> LengthsOk(ast.inner)
         [] OTHER -> TRUE

\* C22: every AST node produced by parse carries the length given by the
\* rules (literal, dot, class, quantifier node = 1; Quantified = operand + 1;
\* concatenation = sum; alternation = sum + 1; AnchorStart = 0; AnchorEnd = 1;
\* Terminal = 0), and the list returned by parse ends with a Terminal node.
C22_AstLengths ==
    /\ Len(asts) >= 1
    /\ asts[Len(asts)].kind = "Terminal"
    /\ \A k \in 1..Len(asts) : LengthsOk(asts[k])

\* ^(a*|b)$ was parsed: the alternation has length 2 + 1 + 1
C22_Witness ==
    /\ pc = "compiled"
    /\ asts = <<AnchorStart,
                Alternation(Quantified(Literal("a"), Quantifier("*"), NoClause),
                            Literal("b")),
                AnchorEnd, Terminal>>
    /\ asts[2].length = 4 /\ asts[2].left.length = 2

\* the targets of the transitions
TargetsOf(transitions) ==
    {transitions[i].tr[k][1] : <<i, k>> \in
        UNION {{<<i, k>> : k \in 1..Len(transitions[i].tr)} : i \in DOMAIN transitions}}
    \ {None}

\* C23: in one step the new active set maps each target state to the
\* maximum of the weights of all transitions that reach it in that step,
\* from any source state and any epsilon path, and holds no other state;
\* the weights reaching one target are not summed and a smaller weight does
\* not replace a larger one.
C23_MaxPerTarget ==
    [][Stepped =>
          LET transitions == entry_transitions(states, counts, tokens[pos], nfa)
          IN  /\ DOMAIN states' = TargetsOf(transitions)
              /\ \A target \in DOMAIN states' :
                    IsMaxOf(states'[target], WeightsTo(target, transitions))]_vars

\* a{0~Geo(0.5)} on aa, after the second a: the terminal state was reached
\* with 1/2 by itself and with 1/4 from the quantifier, and holds 1/2
C23_Witness ==
    /\ pc = "loop" /\ pos = 4
    /\ asts = <<Quantified(Literal("a"), ExactQuantifier(0), Clause("geo", FHalf)),
                Terminal>>
    /\ input = <<"a", "a">>
    /\ LET before == (0 :> F1 @@ 1 :> F1 @@ 2 :> F1 @@ 3 :> FHalf)
           counts_before == (0 :> 2 @@ 1 :> 2 @@ 2 :> 1 @@ 3 :> 1)
       IN  /\ WeightsTo(T, entry_transitions(before, counts_before, tokens[3], nfa))
                  = {FHalf, Frac(1, 4)}
           /\ counts = add_counts(states, counts_before)
    /\ states[T] = FHalf

\* state i is in the active set m with a weight > 0
Live(m, i) == i \in DOMAIN m /\ FLt(F0, m[i])

\* C24: counts changes in a token step only, after the step's transitions
\* are resolved: the new active set is the one step_states computes from
\* the counts as they stood before the step, and then counts[i] is one more
\* (1 for a state not yet counted) for every state i of the new active set
\* with weight > 0 and unchanged for every other state; a state present with
\* weight 0 is not counted.
C24_CountsAfterStep ==
    [][/\ Stepped =>
             /\ \E r \in step_states(states, counts, tokens[pos], nfa) :
                   r.err = "none" /\ states' = r.next
             /\ DOMAIN counts' = DOMAIN counts \cup {i \in DOMAIN states' : Live(states', i)}
             /\ \A i \in DOMAIN counts' :
                   counts'[i] = IF Live(states', i) THEN Get(counts, i, 0) + 1
                                ELSE counts[i]
       /\ (~Stepped /\ pc = "loop") => counts' = counts]_vars

\* after a step a state is in the active set with weight 0 and has never
\* been counted, while another state has been counted twice
C24_Witness ==
    /\ pc = "loop" /\ pos > 1
    /\ \E i \in DOMAIN states : states[i] = F0 /\ i \notin DOMAIN counts
    /\ \E j \in DOMAIN counts : counts[j] = 2 /\ Live(states, j)

\* a quantifier state whose body edge and exit edge lead to states that emit
\* themselves under an epsilon move
PlainOuts(q) ==
    /\ q >= 0 /\ q < Len(nfa)
    /\ nfa[q + 1].kind \in {"Quantifier", "ExactQuantifier"}
    /\ \A e \in 1..2 :
          /\ nfa[q + 1].outs[e] >= 0 /\ nfa[q + 1].outs[e] < Len(nfa)
          /\ nfa[nfa[q + 1].outs[e] + 1].kind
                 \in {"Literal", "Dot", "Class", "AnchorEnd", "Terminal"}

\* the exit weight p1 of quantifier state q: its Counted distribution at the
\* visit count of q, 1 without a distribution
ExitWeight(q) ==
    IF nfa[q + 1].dist = NoDist THEN F1
    ELSE evaluate(nfa[q + 1].dist.dist, Get(counts, q, 0)).p1

\* the transitions of one entry of the active set on the current token, in
\* the order evaluate_state emits them
EntryTransitions(i) ==
    evaluate_state(i, tokens[pos], states[i], nfa, counts, states, FALSE, {})

\* in tr, position k is the self transition of a quantifier state entered
\* by an epsilon move: the body edge follows with the entering weight p and
\* the exit edge with p * p1; self is the weight the quantifier emits for
\* itself, given p
QuantifierEmits(tr, k, self(_, _)) ==
    LET q == tr[k][1] IN
    PlainOuts(q) =>
        /\ k + 2 <= Len(tr)
        /\ tr[k + 1][1] = nfa[q + 1].outs[1]
        /\ tr[k + 2][1] = nfa[q + 1].outs[2]
        /\ LET p == tr[k + 1][2]
           IN  /\ tr[k][2] = self(q, p)
               /\ tr[k + 2][2] = FMul(p, ExitWeight(q))

EnteringWeight(q, p) == p

StoredOrEnteringWeight(q, p) == Get(states, q, p)

IsQuantifierState(q) ==
    q >= 0 /\ q < Len(nfa) /\ nfa[q + 1].kind \in {"Quantifier", "ExactQuantifier"}

AllTokens == {TokenStart, TokenTerminal} \cup {TokenLiteral(c) : c \in Alphabet}

\* the transitions of entry i of the active set on the current token lead to q
Reaches(i, q) ==
    /\ EntryTransitions(i).err = "none"
    /\ \E k \in 1..Len(EntryTransitions(i).tr) : EntryTransitions(i).tr[k][1] = q

\* C26: a quantifier state of the active set yields no transitions from its
\* direct (non-epsilon) evaluation, whatever the token; after a token step a
\* quantifier state is in the new active set only if the transitions of
\* another state of the old active set lead to it in that step.
C26_QuantifierDirectNoOp ==
    [][/\ pc = "loop" =>
             \A q \in DOMAIN states :
                 IsQuantifierState(q) =>
                     \A token \in AllTokens :
                         entry_transitions(states, counts, token, nfa)[q] = Ok(<<>>)
       /\ Stepped =>
             \A q \in DOMAIN states' :
                 IsQuantifierState(q) =>
                     \E i \in DOMAIN states \ {q} : Reaches(i, q)]_vars

\* a quantifier state was in the active set after an earlier step (it has
\* been counted) and no state reached it by an epsilon move in the last step:
\* it is gone from the active set
C26_Witness ==
    /\ pc = "loop" /\ pos > 3
    /\ \E q \in DOMAIN counts : IsQuantifierState(q) /\ q \notin DOMAIN states

IsDotState(i) == i >= 0 /\ i < Len(nfa) /\ nfa[i + 1].kind = "Dot"

\* a Dot state of the active set advances along outs.0 with its weight
\* unchanged on a Literal token
DotAdvancesOnLiteral ==
    (AtStep /\ tokens[pos].kind = "Literal") =>
        \A i \in DOMAIN states :
            IsDotState(i) =>
                EntryTransitions(i) =
                    evaluate_state(nfa[i + 1].outs[1], tokens[pos], states[i], nfa,
                                   counts, states, TRUE, {i})

\* C27: a Dot state advances along outs.0 with its weight unchanged on
\* every Literal token and on no other token: on the synthetic Start and
\* Terminal tokens it yields no transitions, so a pattern ending in an
\* unanchored '.' does not reach the Terminal state without one more input
\* character.
C27_DotOnLiteralOnly ==
    /\ DotAdvancesOnLiteral
    /\ (AtStep /\ tokens[pos].kind # "Literal") =>
           \A i \in DOMAIN states : IsDotState(i) => EntryTransitions(i) = Ok(<<>>)
    /\ (pc = "done" /\ asts \in {<<Dot, Terminal>>, <<AnchorStart, Dot, Terminal>>}
           /\ input = <<>>) => Get(states, T, F0) = F0

\* C28: before the first token is processed the active set is exactly
\* {0 -> 1.0}, whether state 0 is Start or AnchorStart, and counts is empty;
\* the successors of state 0 are in the active set once the synthetic Start
\* token, the first token, has been processed, and not before.
C28_InitialActiveSet ==
    /\ (pc = "loop" /\ pos = 1) =>
           /\ nfa[1].kind \in {"Start", "AnchorStart"}
           /\ states = (0 :> F1)
           /\ counts = EmptyMap
           /\ tokens[1] = TokenStart
           /\ seen = <<>>
    /\ (pc = "loop" /\ pos = 2) =>
           /\ seen = <<TokenStart>>
           /\ DOMAIN states \ {0} # {}
           /\ \A i \in DOMAIN states \ {0} :
                  \E k \in 1..Len(evaluate_state(0, TokenStart, F1, nfa, EmptyMap,
                                                 (0 :> F1), FALSE, {}).tr) :
                      evaluate_state(0, TokenStart, F1, nfa, EmptyMap, (0 :> F1),
                                     FALSE, {}).tr[k][1] = i

\* an anchored pattern: state 0 is AnchorStart and alone in the active set
\* before the Start token; its successor, state 1, is not yet active
C28_Witness ==
    /\ pc = "loop" /\ pos = 1
    /\ nfa[1].kind = "AnchorStart"
    /\ nfa[1].outs[1] = 1
    /\ states = (0 :> F1) /\ counts = EmptyMap
    /\ Len(input) = 2

\* quantifier state q is an ExactQuantifier with the default distribution
HasExactlyTimes(q) ==
    /\ IsQuantifierState(q)
    /\ nfa[q + 1].kind = "ExactQuantifier"
    /\ nfa[q + 1].dist.link = "Counted"
    /\ nfa[q + 1].dist.dist.name = "ExactlyTimes"

\* the visit counts the bounds of the model can produce, and one more
VisitCounts == 0..(MaxExact + MaxInputLen + 1)

\* C29: Dist::ExactlyTimes(n).evaluate(x) is (1,0) for every x < n, (0,1)
\* for x = n and (0,0) for every x > n; an ExactQuantifier {n} entered by an
\* epsilon move passes a weight > 0 to its exit edge only when its visit
\* count is exactly n, and then passes the entering weight unchanged.
C29_ExactlyTimes ==
    AtStep =>
        \A q \in 0..(Len(nfa) - 1) :
            HasExactlyTimes(q) =>
                LET n == nfa[q + 1].n IN
                /\ \A x \in VisitCounts :
                      evaluate(nfa[q + 1].dist.dist, x) =
                          IF x < n THEN Pair(F1, F0)
                          ELSE IF x = n THEN Pair(F0, F1)
                          ELSE Pair(F0, F0)
                /\ \A i \in DOMAIN states :
                      EntryTransitions(i).err = "none" =>
                          \A k \in 1..Len(EntryTransitions(i).tr) :
                              LET tr == EntryTransitions(i).tr IN
                              (tr[k][1] = q /\ PlainOuts(q)) =>
                                  tr[k + 2][2] =
                                      IF Get(counts, q, 0) = n THEN tr[k + 1][2]
                                      ELSE F0

\* a{2} on aaa: at the third a the quantifier has been visited twice and
\* its exit edge carries weight 1; MaxExact visits earlier it carried 0
C29_Witness ==
    /\ AtStep
    /\ \E q \in DOMAIN states :
          /\ HasExactlyTimes(q)
          /\ nfa[q + 1].n = MaxExact
          /\ Get(counts, q, 0) = MaxExact
          /\ \E i \in DOMAIN states :
                /\ EntryTransitions(i).err = "none"
                /\ \E k \in 1..Len(EntryTransitions(i).tr) :
                      /\ EntryTransitions(i).tr[k][1] = q
                      /\ PlainOuts(q)
                      /\ EntryTransitions(i).tr[k + 2][2] = F1

\* the quantified fragments of the pattern whose entry is wired to a single
\* state: <<u, index, e>> for a fragment of the node u compiled at index and
\* entered from the edge e; the first node of the pattern is entered from
\* state 0 and the right side of a concatenation b u from the state of b
QuantifiedFragments ==
    LET k == IF asts[1].kind = "AnchorStart" THEN 2 ELSE 1
        x == asts[k]
    IN  IF x.kind = "Quantified" THEN {<<x, 1, nfa[1].outs[1]>>}
        ELSE IF x.kind = "Concatenation" /\ x.left.kind = "Literal"
                /\ x.right.kind = "Quantified"
        THEN {<<x.right, 2, nfa[2].outs[1]>>}
        ELSE {}

\* the state compiled from the quantifier of the fragment f
QuantifierIndex(f) == f[2] + f[1].operand.length

IsQuantifierOf(f, q) ==
    /\ IsQuantifierState(q)
    /\ nfa[q + 1].kind = f[1].quantifier.kind
    /\ nfa[q + 1].outs[1] =
           IF f[1].quantifier.kind = "Quantifier" /\ f[1].quantifier.c = "?"
           THEN ast_to_frag(f[1].operand, f[2], <<q, None>>, NoDist).start
           ELSE f[2]

EntersAtQuantifier(f) ==
    f[1].quantifier.kind = "Quantifier" /\ f[1].quantifier.c \in {"?", "*"}

Compiled == pc # "parsed"

\* C30: for every quantified fragment (?, *, + and {n}) the state that the
\* Start or AnchorStart state, or the preceding fragment of a concatenation,
\* is wired to is the quantifier state of the fragment.
C30_EntryIsQuantifier ==
    Compiled =>
        \A f \in QuantifiedFragments :
            IsQuantifierOf(f, QuantifierIndex(f)) /\ f[3] = QuantifierIndex(f)

\* what quantifier_to_frag returns as the start of the fragment f: the
\* quantifier state for ? and *, the start of the operand for + and {n}
FragStart(f) ==
    IF EntersAtQuantifier(f) THEN QuantifierIndex(f)
    ELSE ast_to_frag(f[1].operand, f[2], <<QuantifierIndex(f), None>>, NoDist).start

\* the Start state and the left side of a concatenation are wired to the
\* start of the fragment, AnchorStart to the first state of the fragment
\* (its operand), whatever the quantifier
QuantifiedEntry ==
    Compiled =>
        \A f \in QuantifiedFragments :
            /\ IsQuantifierOf(f, QuantifierIndex(f))
            /\ f[3] = IF f[2] = 1 /\ nfa[1].kind = "AnchorStart" THEN f[2]
                      ELSE FragStart(f)

(***************************************************************************)
(* The layout of a compiled pattern: every node of the ASTs with the index *)
(* at which its fragment is compiled and the index its exits are wired to. *)
(***************************************************************************)
IsOptional(quantifier) == quantifier.kind = "Quantifier" /\ quantifier.c = "?"

\* the entry state of the fragment of node compiled at index b
RECURSIVE EntryOf(_, _)
EntryOf(node, b) ==
    CASE node.kind = "Concatenation" -> EntryOf(node.left, b)
      [] node.kind = "Quantified" ->
            IF node.quantifier.kind = "Quantifier" /\ node.quantifier.c \in {"?", "*"}
            THEN b + node.operand.length
            ELSE EntryOf(node.operand, b)
      [] OTHER -> b

\* <<node, b, exit>> for node and every node below it
RECURSIVE SubFragments(_, _, _)
SubFragments(node, b, exit) ==
    {<<node, b, exit>>} \cup
    CASE node.kind = "Alternation" ->
            SubFragments(node.left, b + 1, exit)
            \cup SubFragments(node.right, b + 1 + node.left.length, exit)
      [] node.kind = "Concatenation" ->
            SubFragments(node.left, b, EntryOf(node.right, b + node.left.length))
            \cup SubFragments(node.right, b + node.left.length, exit)
      [] node.kind = "Quantified" ->
            SubFragments(node.operand, b,
                         IF IsOptional(node.quantifier) THEN exit
                         ELSE b + node.operand.length)
      [] OTHER -> {}

\* the index at which the k-th top-level node is compiled
RECURSIVE TopBase(_)
TopBase(k) == IF k = 1 THEN 1 ELSE TopBase(k - 1) + asts[k - 1].length

AllFragments ==
    UNION {SubFragments(asts[k], TopBase(k), TopBase(k) + asts[k].length) :
              k \in 1..Len(asts)}

\* the states of the compiled pattern at indices b .. e
StatesAt(b, e) == [i \in 1..(e - b + 1) |-> nfa[b + i]]

\* every edge of the states b .. e stays within b .. e or leads to exit
ExitsLeadTo(b, e, exit) ==
    \A i \in b..e : \A o \in 1..2 :
        nfa[i + 1].outs[o] \in (b..e) \cup {exit, None}

\* C31: for an operand quantified with *, + or {n} and compiled at base
\* index b, the operand occupies the indices b .. b+len(operand)-1, the
\* quantifier state is at index b+len(operand), every exit of the operand
\* leads to the quantifier state, and the outs of the quantifier are
\* (b, exit of the whole fragment).
C31_LoopQuantifierLayout ==
    Compiled =>
        \A f \in AllFragments :
            (f[1].kind = "Quantified" /\ ~IsOptional(f[1].quantifier)) =>
                LET b == f[2]
                    q == b + f[1].operand.length
                IN  /\ q < Len(nfa)
                    /\ StatesAt(b, q - 1) =
                           ast_to_frag(f[1].operand, b, <<q, None>>, NoDist).states
                    /\ ExitsLeadTo(b, q - 1, q)
                    /\ \E i \in b..(q - 1) : q \in {nfa[i + 1].outs[1], nfa[i + 1].outs[2]}
                    /\ nfa[q + 1].kind = f[1].quantifier.kind
                    /\ nfa[q + 1].c = (IF f[1].quantifier.kind = "Quantifier"
                                       THEN f[1].quantifier.c ELSE "")
                    /\ nfa[q + 1].outs = <<b, f[3]>>

\* ^(a?b)*$: the operand a?b occupies 1..3 with the ? state at 2 as its
\* entry, the * state is at 4 with outs (1, 5), and b leads to 4
C31_Witness ==
    /\ pc = "compiled"
    /\ nfa[1].kind = "AnchorStart"
    /\ \E f \in AllFragments :
          /\ f[1].kind = "Quantified" /\ f[1].quantifier.kind = "Quantifier"
          /\ f[1].quantifier.c = "*"
          /\ f[1].operand.kind = "Concatenation"
          /\ f[2] = 1 /\ f[3] = 5
          /\ EntryOf(f[1].operand, 1) = 2
          /\ nfa[5].kind = "Quantifier" /\ nfa[5].outs = <<1, 5>>
          /\ nfa[4].kind = "Literal" /\ nfa[4].outs[1] = 4

\* C32: for an operand quantified with ? and compiled at base index b, the
\* outs of the quantifier state at b+len(operand) are (entry of the operand,
\* exit of the whole fragment), every exit of the operand leads to the exit
\* of the whole fragment and none back to the quantifier, and the entry of
\* the fragment is the quantifier state: a Start state in front of it
\* points at the ? state.
C32_OptionalLayout ==
    Compiled =>
        \A f \in AllFragments :
            (f[1].kind = "Quantified" /\ IsOptional(f[1].quantifier)) =>
                LET b == f[2]
                    q == b + f[1].operand.length
                    exit == f[3]
                IN  /\ q < Len(nfa) /\ exit # q
                    /\ nfa[q + 1].kind = "Quantifier" /\ nfa[q + 1].c = "?"
                    /\ nfa[q + 1].outs = <<EntryOf(f[1].operand, b), exit>>
                    /\ StatesAt(b, q - 1) =
                           ast_to_frag(f[1].operand, b, <<exit, None>>, NoDist).states
                    /\ ExitsLeadTo(b, q - 1, exit)
                    /\ \E i \in b..(q - 1) :
                          exit \in {nfa[i + 1].outs[1], nfa[i + 1].outs[2]}
                    /\ ast_to_frag(f[1], b, <<exit, None>>, NoDist).start = q
                    /\ (f[1] = asts[1] /\ nfa[1].kind = "Start") => nfa[1].outs[1] = q

\* a?: Start points at the ? state 2, whose outs are (1, 3); the operand a
\* at 1 leads to the exit 3 and not to the ? state
C32_Witness ==
    /\ pc = "compiled"
    /\ nfa[1].kind = "Start" /\ nfa[1].outs[1] = 2
    /\ asts[1].kind = "Quantified" /\ IsOptional(asts[1].quantifier)
    /\ nfa[2].kind = "Literal" /\ nfa[2].outs[1] = 3
    /\ nfa[3].kind = "Quantifier" /\ nfa[3].outs = <<1, 3>>

\* C33: compiling Alternation(L, R) at base index b puts a Split state at
\* index b whose outs are the entry states of L and of R, places L at b+1
\* and R at b+1+len(L), and wires every exit of L and of R to the exit of
\* the whole fragment.
C33_AlternationLayout ==
    Compiled =>
        \A f \in AllFragments :
            f[1].kind = "Alternation" =>
                LET b == f[2]
                    l == b + 1
                    r == b + 1 + f[1].left.length
                    e == r + f[1].right.length - 1
                    exit == f[3]
                IN  /\ e < Len(nfa)
                    /\ f[1].length = e - b + 1
                    /\ nfa[b + 1].kind = "Split"
                    /\ nfa[b + 1].outs = <<EntryOf(f[1].left, l), EntryOf(f[1].right, r)>>
                    /\ StatesAt(l, r - 1) =
                           ast_to_frag(f[1].left, l, <<exit, None>>, NoDist).states
                    /\ StatesAt(r, e) =
                           ast_to_frag(f[1].right, r, <<exit, None>>, NoDist).states
                    /\ ExitsLeadTo(l, r - 1, exit)
                    /\ ExitsLeadTo(r, e, exit)
                    /\ \E i \in l..(r - 1) : exit \in {nfa[i + 1].outs[1], nfa[i + 1].outs[2]}
                    /\ \E i \in r..e : exit \in {nfa[i + 1].outs[1], nfa[i + 1].outs[2]}

\* ^(a*|b)$: Split at 1 with outs (3, 4): the entry of a* is its quantifier
\* at 3, b is at 4, and both the quantifier and b lead to the AnchorEnd at 5
C33_Witness ==
    /\ pc = "compiled"
    /\ nfa[1].kind = "AnchorStart"
    /\ asts[2].kind = "Alternation" /\ asts[2].left.kind = "Quantified"
    /\ nfa[2].kind = "Split" /\ nfa[2].outs = <<3, 4>>
    /\ nfa[4].kind = "Quantifier" /\ nfa[4].c = "*" /\ nfa[4].outs = <<2, 5>>
    /\ nfa[5].kind = "Literal" /\ nfa[5].outs[1] = 5
    /\ nfa[6].kind = "AnchorEnd"

\* C34: compiling Concatenation(L, R) at base index b places L at b and R
\* at b+len(L), wires every exit of L to the entry state of R (the
\* quantifier state when R is quantified by ? or *), wires the exits of R
\* to the exit of the whole fragment, and the entry of the fragment is the
\* entry of L.
C34_ConcatenationLayout ==
    Compiled =>
        \A f \in AllFragments :
            f[1].kind = "Concatenation" =>
                LET b == f[2]
                    r == b + f[1].left.length
                    e == r + f[1].right.length - 1
                    exit == f[3]
                    entry == EntryOf(f[1].right, r)
                IN  /\ e < Len(nfa)
                    /\ StatesAt(b, r - 1) =
                           ast_to_frag(f[1].left, b, <<entry, None>>, NoDist).states
                    /\ ExitsLeadTo(b, r - 1, entry)
                    /\ \E i \in b..(r - 1) : entry \in {nfa[i + 1].outs[1], nfa[i + 1].outs[2]}
                    /\ StatesAt(r, e) =
                           ast_to_frag(f[1].right, r, <<exit, None>>, NoDist).states
                    /\ ExitsLeadTo(r, e, exit)
                    /\ \E i \in r..e : exit \in {nfa[i + 1].outs[1], nfa[i + 1].outs[2]}
                    /\ ast_to_frag(f[1], b, <<exit, None>>, NoDist).start =
                           EntryOf(f[1].left, b)
                    /\ (f[1] = asts[1] /\ nfa[1].kind = "Start") =>
                           nfa[1].outs[1] = EntryOf(f[1].left, b)

\* ^ba?$: b at 1 points at the ? state 3, not at a at 2; a and the ? state
\* lead to the AnchorEnd at 4
C34_Witness ==
    /\ pc = "compiled"
    /\ nfa[1].kind = "AnchorStart"
    /\ asts[2].kind = "Concatenation" /\ asts[2].right.kind = "Quantified"
    /\ IsOptional(asts[2].right.quantifier)
    /\ nfa[2].kind = "Literal" /\ nfa[2].c = "b" /\ nfa[2].outs[1] = 3
    /\ nfa[3].kind = "Literal" /\ nfa[3].outs[1] = 4
    /\ nfa[4].kind = "Quantifier" /\ nfa[4].outs = <<2, 4>>
    /\ nfa[5].kind = "AnchorEnd"

\* C35: the fragments of the top-level ASTs are appended in order starting
\* at index 1; when the first AST is AnchorStart it is state 0 and there is
\* no Start state, otherwise state 0 is a Start state whose outs.0 is the
\* entry state of the first fragment; the exit of each top-level fragment
\* is the index at which the next top-level fragment begins.
C35_TopLevelLayout ==
    Compiled =>
        /\ Len(nfa) = TopBase(Len(asts)) + 1
        /\ asts[Len(asts)].kind = "Terminal" /\ nfa[Len(nfa)] = State_terminal
        /\ IF asts[1].kind = "AnchorStart"
           THEN /\ nfa[1].kind = "AnchorStart" /\ nfa[1].outs = <<1, None>>
                /\ \A i \in 1..Len(nfa) : nfa[i].kind # "Start"
           ELSE /\ nfa[1].kind = "Start"
                /\ nfa[1].outs = <<EntryOf(asts[1], 1), None>>
        /\ \A k \in 1..Len(asts) :
              LET b == TopBase(k)
                  next == TopBase(k + 1)
              IN  asts[k].kind \notin {"AnchorStart", "Terminal"} =>
                      /\ StatesAt(b, next - 1) =
                             ast_to_frag(asts[k], b, <<next, None>>, NoDist).states
                      /\ ExitsLeadTo(b, next - 1, next)
                      /\ \E i \in b..(next - 1) :
                            next \in {nfa[i + 1].outs[1], nfa[i + 1].outs[2]}

\* a*$: Start at 0 points at the * state 2, the entry of the first
\* fragment; the * state exits to 3, where the AnchorEnd begins, and the
\* AnchorEnd to 4, the Terminal state
C35_Witness ==
    /\ pc = "compiled"
    /\ Len(asts) = 3 /\ Len(nfa) = 5
    /\ nfa[1].kind = "Start" /\ nfa[1].outs[1] = 2
    /\ nfa[3].kind = "Quantifier" /\ nfa[3].c = "*" /\ nfa[3].outs = <<1, 3>>
    /\ nfa[4].kind = "AnchorEnd" /\ nfa[4].outs[1] = 4
    /\ nfa[5].kind = "Terminal"

\* the states compiled from the fragment f = <<node, b, exit>>
FragStates(f) == ast_to_frag(f[1], f[2], <<f[3], None>>, NoDist).states

\* the states of f are the ones stored at the list positions b, b+1, ...
\* of the compiled pattern, so that index k names the state at position k
StoredAtBase(f) ==
    /\ f[2] + Len(FragStates(f)) <= Len(nfa)
    /\ StatesAt(f[2], f[2] + Len(FragStates(f)) - 1) = FragStates(f)

\* C36 as stated: every compiled fragment other than AnchorStart is stored
\* at its base index and contains exactly as many states as the length of
\* its AST node.
C36_StatesEqualLength ==
    Compiled =>
        \A f \in AllFragments :
            f[1].kind # "AnchorStart" =>
                StoredAtBase(f) /\ Len(FragStates(f)) = f[1].length

\* C36: in every compiled pattern the state stored at list position k is
\* the state that outs refer to as index k: every fragment is stored at its
\* base index and every edge names a position of the list; every fragment
\* contains exactly as many states as the length of its AST node, except
\* AnchorStart, of length 0, which is the single state at the reserved
\* position 0, and Terminal, of length 0, which is the single state at the
\* last position.
C36_IndexIsPosition ==
    Compiled =>
        /\ \A i \in 1..Len(nfa) : \A o \in 1..2 :
               nfa[i].outs[o] \in (0..(Len(nfa) - 1)) \cup {None}
        /\ \A f \in AllFragments :
               CASE f[1].kind = "AnchorStart" ->
                       f[1].length = 0 /\ nfa[1] = FragStates(f)[1]
                 [] f[1].kind = "Terminal" ->
                       /\ f[1].length = 0 /\ FragStates(f) = <<State_terminal>>
                       /\ f[2] = Len(nfa) - 1 /\ StoredAtBase(f)
                 [] OTHER ->
                       StoredAtBase(f) /\ Len(FragStates(f)) = f[1].length

\* ^(a?|b)*$: the operand a?|b of length 4 is stored at 1..4 inside the
\* fragment of length 5 stored at 1..5; the Terminal state is at 7
C36_Witness ==
    /\ pc = "compiled"
    /\ Len(nfa) = 8
    /\ \E f \in AllFragments :
          /\ f[1].kind = "Alternation" /\ f[1].left.kind = "Quantified"
          /\ IsOptional(f[1].left.quantifier)
          /\ f[2] = 1 /\ f[3] = 5 /\ f[1].length = 4
          /\ StoredAtBase(f)
          /\ nfa[2].kind = "Split" /\ nfa[2].outs = <<3, 4>>
    /\ nfa[6].kind = "Quantifier" /\ nfa[6].outs = <<1, 6>>
    /\ \E f \in AllFragments : f[1].kind = "Terminal" /\ f[2] = 7

\* the states reachable from the states S along at most n outs edges
RECURSIVE ReachableFrom(_, _)
ReachableFrom(S, n) ==
    IF n = 0 THEN S
    ELSE ReachableFrom(S \cup ({nfa[i + 1].outs[o] : i \in S, o \in 1..2} \ {None}),
                       n - 1)

\* C37: in every compiled pattern every state is reachable from state 0
\* along outs edges, and the body edge outs.0 of every *, + and {n}
\* quantifier leads to the entry state of its operand, also when the operand
\* begins with a ?- or *-quantified part.
C37_ReachableAndBodyToEntry ==
    Compiled =>
        /\ ReachableFrom({0}, Len(nfa)) = 0..(Len(nfa) - 1)
        /\ \A f \in AllFragments :
               (f[1].kind = "Quantified" /\ ~IsOptional(f[1].quantifier)) =>
                   nfa[f[2] + f[1].operand.length + 1].outs[1] =
                       EntryOf(f[1].operand, f[2])

\* the elements of S in some order
RECURSIVE SeqOf(_)
SeqOf(S) ==
    IF S = {} THEN <<>>
    ELSE LET x == CHOOSE x \in S : TRUE IN <<x>> \o SeqOf(S \ {x})

\* the number of active sets of h[2], h[3], ... in which state i is live
RECURSIVE TimesLive(_, _, _)
TimesLive(h, i, k) ==
    IF k <= 1 THEN 0
    ELSE TimesLive(h, i, k - 1) + (IF Live(h[k], i) THEN 1 ELSE 0)

\* counts as the number of steps after which a state was live, for the
\* active sets h[1] (initial), h[2] (after step 1), ...
CountsFrom(h) ==
    [i \in {j \in 0..(Len(nfa) - 1) : TimesLive(h, j, Len(h)) > 0} |->
        TimesLive(h, i, Len(h))]

\* the active sets before step 1 and after the steps 1 .. k, each step
\* taken with the counts the earlier active sets give
RECURSIVE History(_)
History(k) ==
    IF k = 0 THEN <<initial_state(nfa, FALSE)>>
    ELSE LET h == History(k - 1)
             tr == entry_transitions(h[k], CountsFrom(h), tokens[k], nfa)
         IN  Append(h, step_states_loop(SeqOf(DOMAIN h[k]), EmptyMap, tr).next)

\* C38: during one match counts is never reset and never decreases: after
\* step k the count of a state is the number of the steps 1 .. k after
\* which it was in the active set with weight > 0, whichever path made it
\* live; a state that was never live has no count, and a state that is no
\* longer live keeps its count.
C38_CountsAreTimesLive ==
    (pc = "loop" /\ pos >= 1) =>
        LET h == History(pos - 1)
        IN  /\ states = h[pos]
            /\ counts = CountsFrom(h)
            /\ \A i \in DOMAIN counts : counts[i] >= 1 /\ counts[i] <= pos - 1

\* after three steps a state that is no longer live keeps the count 1 of
\* the one step after which it was live, while another state has been live
\* after all three steps
C38_Witness ==
    /\ pc = "loop" /\ pos = 4
    /\ \E i \in DOMAIN counts :
          /\ ~Live(states, i) /\ counts[i] = 1
          /\ ~Live(History(2)[3], i)
    /\ \E j \in DOMAIN counts : j # 0 /\ counts[j] = 3

\* the active sets before step 1 and after the steps 1 .. k of a match of
\* the compiled pattern against the tokens toks
RECURSIVE Replay(_, _)
Replay(toks, k) ==
    IF k = 0 THEN <<initial_state(nfa, FALSE)>>
    ELSE LET h == Replay(toks, k - 1)
             tr == entry_transitions(h[k], CountsFrom(h), toks[k], nfa)
         IN  Append(h, step_states_loop(SeqOf(DOMAIN h[k]), EmptyMap, tr).next)

\* the weight of the Terminal state after a match against the input s,
\* 0 when the Terminal state is not in the final active set
TerminalWeightOn(s) ==
    LET h == Replay(Tokens(s), Len(s) + 2) IN Get(h[Len(h)], T, F0)

\* C39: for a pattern without ^, when a suffix s of the input reaches the
\* Terminal state with a weight p > 0 on its own, the whole input t+s
\* reaches it with a weight p' >= p: the characters of t, earlier partial
\* occurrences of a counted operand included, do not change the visit count
\* the later match attempt sees.
C39_PrefixMonotone ==
    (pc = "done" /\ nfa[1].kind = "Start") =>
        \A k \in 1..Len(input) :
            LET s == SubSeq(input, k + 1, Len(input))
            IN  FLt(F0, TerminalWeightOn(s)) =>
                    FLe(TerminalWeightOn(s), Get(states, T, F0))

\* ---------------------------------------------------------------------
\* the number of implicitly weighted members of a ~Cat(..) class

\* the larger of 1 and k - m, over the integers
MaxOneOrDifference(k, m) == IF k - m > 1 THEN k - m ELSE 1

\* C40: building a Categorical distribution for a class of k characters
\* from a Cat argument list with m named keys other than "." computes the
\* number of implicitly weighted characters as max(1, k - m) without
\* unsigned underflow, for every m, including m > k (keys named that are
\* not members of the class).
C40_ImplicitCountNoUnderflow ==
    CatParsed =>
        \A c \in CatChars : \A named \in CatNamed :
            n_implicit(c, named) =
                {[panic |-> FALSE,
                  v |-> MaxOneOrDifference(Len(c), n_explicit(named))]}

\* the count is max(1, k - m) where no more keys are named than the class
\* has members
ImplicitCountWithinClass ==
    CatParsed =>
        \A c \in CatChars : \A named \in CatNamed :
            n_explicit(named) <= Len(c) =>
                n_implicit(c, named) =
                    {[panic |-> FALSE,
                      v |-> MaxOneOrDifference(Len(c), n_explicit(named))]}

====
